---- MODULE Spec2Model ----
(***************************************************************************)
(* Model of the swarm-rankings data core:                                  *)
(*   - supabase/functions/blockchain-listener/index.ts (Chain Synchronizer,*)
(*     Sync Cursor, Event Store); the file holds two variants of the       *)
(*     handler, the Blockscout one (lines 1-205) and the RPC one           *)
(*     (lines 207-414);                                                    *)
(*   - supabase/functions/leaderboard/index.ts (Source Aggregator,         *)
(*     Leaderboard Builder, Result Cache).                                 *)
(* A handler is split at its awaits: one action resumes the handler from   *)
(* one await and runs it to the next one.                                  *)
(***************************************************************************)
EXTENDS Integers, Sequences, FiniteSets, Bags, TLC

VARIABLES
    variant,      \* which variant of the listener is deployed
    chainHead,    \* the chain's current head block
    now,          \* wall clock, in ms
    metadata,     \* blockchain_sync_metadata: <<>> (no row) or <<last_synced_block>>
    store,        \* winner_events: a bag of rows
    run,          \* per invocation of the listener: its locals and position
    calls,        \* number of listener invocations started so far
    faultSeen,    \* history: some RPC or store operation has failed
    interrupted,  \* history: an invocation was cut off after it had written rows
    cache,        \* leaderboard: <<>> (null) or <<CacheData>>
    cacheTimestamp, \* leaderboard: the Date.now() of the build that filled cache
    req,          \* per leaderboard request: its locals, position and response
    panel,        \* SyncProgressPanel: its React state, effect and pending loop
    index         \* Index page: its React state and its leaderboard fetches

syncVars == <<variant, chainHead, now, metadata, store, run, calls,
              faultSeen, interrupted>>

lbVars == <<cache, cacheTimestamp, req>>

uiVars == <<panel, index>>

vars == <<syncVars, lbVars, uiVars>>

----------------------------------------------------------------------------
(* Bounds of the model *)

\* listener invocations per behaviour
MaxCalls == 2
\* the clock stops at MaxTicks * TickMs while the listener is observed
MaxTicks == 1
\* the clock stops at LbMaxTicks * TickMs while the leaderboard is observed
LbMaxTicks == 3
\* the chain head is one of HeadOffset(v, 0..MaxHeadIdx) blocks above START_BLOCK
MaxHeadIdx == 2
\* the page length of the paged queries
PageSize == 2
\* stored events of the stores the merge is applied to
MaxEvents == 3
\* sub-batches of a run whose log queries fail
ErrBatches == 8

\* leaderboard fetches of the Index page in flight at once
MaxFetches == 2

\* the invocation slots of the listener
Procs == {1, 2}
\* the request slots of the leaderboard
Reqs == {1, 2}

----------------------------------------------------------------------------
(* Program constants *)

Variants == {"blockscout", "rpc"}

START_BLOCK == 10000000

BATCH_SIZE(v) == IF v = "blockscout" THEN 10000 ELSE 2000

MAX_BLOCKS_PER_RUN(v) == IF v = "blockscout" THEN 100000 ELSE 50000

\* batchErrors > 5 stops the run
ERROR_THRESHOLD == 5

\* const CACHE_TTL = 60000
CACHE_TTL == 60000

\* one tick of the wall clock, in ms
TickMs == 30000

----------------------------------------------------------------------------
(* Optional values: a JS number that may be NaN, a row that may be absent *)

None == <<>>
Some(x) == <<x>>

Min(a, b) == IF a <= b THEN a ELSE b
Max(a, b) == IF a >= b THEN a ELSE b

\* Math.min(a, b) where b may be NaN
JsMin(a, ob) == IF ob = None THEN None ELSE Some(Min(a, ob[1]))

\* oa - b where oa may be NaN
JsSub(oa, b) == IF oa = None THEN None ELSE Some(oa[1] - b)

\* a < ob where ob may be NaN: a comparison with NaN is false
JsLt(a, ob) == ob # None /\ a < ob[1]

\* oa > 0 where oa may be NaN
JsGt0(oa) == oa # None /\ oa[1] > 0

\* Math.round(num / den * 100) for den > 0, num >= 0
RoundPercent(num, den) == (200 * num + den) \div (2 * den)

----------------------------------------------------------------------------
(* The chain: the contract's logs, in block order *)

ChainLogs(v) ==
    << [blockNumber |-> START_BLOCK + 3, transactionHash |-> "0xa1",
        decodable |-> TRUE, round |-> 1, winners |-> <<"p1", "p2">>,
        timeStamp |-> Some(1000)],
       [blockNumber |-> START_BLOCK + BATCH_SIZE(v) - 1, transactionHash |-> "0xa2",
        decodable |-> TRUE, round |-> 2, winners |-> <<"p1">>,
        timeStamp |-> None],
       [blockNumber |-> START_BLOCK + BATCH_SIZE(v) + 2, transactionHash |-> "0xa3",
        decodable |-> TRUE, round |-> 3, winners |-> <<"p2", "p2">>,
        timeStamp |-> Some(3000)],
       [blockNumber |-> START_BLOCK + 2 * BATCH_SIZE(v), transactionHash |-> "0xa4",
        decodable |-> FALSE, round |-> 0, winners |-> <<>>,
        timeStamp |-> Some(4000)] >>

\* the heads the chain can show
HeadOffset(v, i) ==
    IF i = 0 THEN BATCH_SIZE(v) \div 2
             ELSE (i + 1) * BATCH_SIZE(v) + (i - 1)

Heads(v) == { START_BLOCK + HeadOffset(v, i) : i \in 0..MaxHeadIdx }

\* getLogs(fromBlock, toBlock): the logs of blocks s..e that exist, in block order
LogsInRange(v, head, s, e) ==
    SelectSeq(ChainLogs(v),
              LAMBDA l : s <= l.blockNumber /\ l.blockNumber <= e
                         /\ l.blockNumber <= head)

----------------------------------------------------------------------------
(* The Event Store: winner_events with UNIQUE(transaction_hash, peer_id) *)

\* the rows one decoded log is written as (insertBatch), one per winner
WinnerRows(log, clock) ==
    [ i \in 1..Len(log.winners) |->
        [peer_id          |-> log.winners[i],
         block_number     |-> log.blockNumber,
         transaction_hash |-> log.transactionHash,
         round_number     |-> log.round,
         event_timestamp  |-> IF log.timeStamp # None THEN log.timeStamp[1]
                                                      ELSE clock] ]

Key(row) == <<row.transaction_hash, row.peer_id>>

HasKey(bag, k) == \E r \in BagToSet(bag) : Key(r) = k

\* a plain INSERT, with no conflict target
InsertRowNoConflict(bag, row) == bag (+) SetToBag({row})

\* ON CONFLICT (transaction_hash, peer_id) DO UPDATE, for one row
InsertRowReplace(bag, row) ==
    [ r \in { x \in BagToSet(bag) : Key(x) # Key(row) } \cup {row} |-> 1 ]

\* ON CONFLICT (transaction_hash, peer_id) DO NOTHING, for one row
InsertRow(bag, row) ==
    IF HasKey(bag, Key(row)) THEN bag ELSE bag (+) SetToBag({row})

RECURSIVE Upsert(_, _)
\* an upsert that tests the rows of a batch against the stored rows only
UpsertAgainstStored(bag, batch) ==
    bag (+) [ r \in { batch[i] : i \in { j \in 1..Len(batch) : ~HasKey(bag, Key(batch[j])) } }
                |-> Cardinality({ j \in 1..Len(batch) : batch[j] = r }) ]

\* .upsert(insertBatch, {onConflict: 'transaction_hash,peer_id', ignoreDuplicates: true})
Upsert(bag, batch) ==
    IF batch = <<>> THEN bag
    ELSE Upsert(InsertRow(bag, Head(batch)), Tail(batch))

----------------------------------------------------------------------------
(* The listener's handler *)

IdleRun ==
    [pc |-> "idle", fromBlock |-> 0, currentBlock |-> None, targetBlock |-> None,
     totalBlocksToSync |-> None, start |-> 0, lastProcessedBlock |-> 0,
     batchErrors |-> 0, processedEvents |-> 0, pending |-> <<>>,
     clean |-> TRUE, wrote |-> FALSE, result |-> None]

InFlight == {"head", "logs", "upsert", "cursor"}

\* metadata?.last_synced_block || START_BLOCK, row being what the select returned
ReadFromBlock(row) ==
    IF row # None /\ row[1] # 0 THEN row[1] ELSE START_BLOCK

\* the cursor as a number: 0 when there is no row (the column's default)
CursorValue == IF metadata = None THEN 0 ELSE metadata[1]

\* a target that is the chain head, however far
TargetBlockNoCap(v, fromBlock, currentBlock) == currentBlock

\* Math.min(fromBlock + MAX_BLOCKS_PER_RUN, currentBlock)
TargetBlock(v, fromBlock, currentBlock) ==
    JsMin(fromBlock + MAX_BLOCKS_PER_RUN(v), currentBlock)

\* a sub-batch end that is not capped by the target
BatchEndUncapped(v, start, target) == start + BATCH_SIZE(v) - 1

\* a sub-batch that ends where it starts
BatchEndAtStart(v, start, target) == start

\* Math.min(start + BATCH_SIZE - 1, targetBlock); the loop runs only while
\* start < targetBlock, so targetBlock is a number here
BatchEnd(v, start, target) == Min(start + BATCH_SIZE(v) - 1, target[1])

\* the JSON body of a 200 response
SuccessResult(r) ==
    LET remainingBlocks == JsSub(r.currentBlock, r.lastProcessedBlock)
    IN [success           |-> TRUE,
        status            |-> 200,
        fromBlock         |-> r.fromBlock,
        toBlock           |-> r.lastProcessedBlock,
        currentBlock      |-> r.currentBlock,
        processedEvents   |-> r.processedEvents,
        remainingBlocks   |-> remainingBlocks,
        totalBlocksToSync |-> r.totalBlocksToSync,
        progress          |-> IF JsGt0(r.totalBlocksToSync)
                              THEN RoundPercent(r.lastProcessedBlock - r.fromBlock,
                                                r.totalBlocksToSync[1])
                              ELSE 100,
        needsMoreSync     |-> JsGt0(remainingBlocks),
        batchErrors       |-> r.batchErrors]

\* the JSON body of a 503 or 500 response
ErrorResult(r, code) ==
    [success           |-> FALSE,
     status            |-> code,
     fromBlock         |-> r.fromBlock,
     toBlock           |-> r.lastProcessedBlock,
     currentBlock      |-> r.currentBlock,
     processedEvents   |-> 0,
     remainingBlocks   |-> None,
     totalBlocksToSync |-> None,
     progress          |-> 0,
     needsMoreSync     |-> FALSE,
     batchErrors       |-> 0]

\* the handler returns its 200 response
Finish(r) == [r EXCEPT !.pc = "done", !.pending = <<>>, !.result = Some(SuccessResult(r))]

\* after the loop: the cursor is upserted if lastProcessedBlock > fromBlock
AfterLoop(r) ==
    IF r.lastProcessedBlock > r.fromBlock THEN [r EXCEPT !.pc = "cursor", !.pending = <<>>]
                                          ELSE Finish(r)

\* a loop step that leaves one block out between two sub-batches
NextIterWithGap(v, r) ==
    LET r2 == [r EXCEPT !.start = r.start + BATCH_SIZE(v) + 1, !.pending = <<>>,
                        !.clean = TRUE]
    IN IF JsLt(r2.start, r2.targetBlock) THEN [r2 EXCEPT !.pc = "logs"]
                                         ELSE AfterLoop(r2)

\* start += BATCH_SIZE and the loop test start < targetBlock
NextIter(v, r) ==
    LET r2 == [r EXCEPT !.start = r.start + BATCH_SIZE(v), !.pending = <<>>,
                        !.clean = TRUE]
    IN IF JsLt(r2.start, r2.targetBlock) THEN [r2 EXCEPT !.pc = "logs"]
                                         ELSE AfterLoop(r2)

\* lastProcessedBlock = end, then the next iteration
BatchDone(v, r) ==
    NextIter(v, [r EXCEPT !.lastProcessedBlock = BatchEnd(v, r.start, r.targetBlock)])

\* a log that is written: it decodes and names at least one winner
Writable(log) == log.decodable /\ Len(log.winners) > 0

RECURSIVE SkipUnwritable(_)
\* the for loop over the logs runs, without awaiting, past every log whose
\* decode throws (caught, logged) or that has no winners
SkipUnwritable(logs) ==
    IF logs = <<>> \/ Writable(Head(logs)) THEN logs ELSE SkipUnwritable(Tail(logs))

\* the handler runs on through the logs of the sub-batch up to its next await
ThroughLogs(v, r, logs) ==
    LET rest == SkipUnwritable(logs)
    IN IF rest = <<>> THEN BatchDone(v, r)
                      ELSE [r EXCEPT !.pc = "upsert", !.pending = rest]

\* a catch that breaks when batchErrors reaches 5
BatchFailedAtFive(v, r) ==
    LET r2 == [r EXCEPT !.batchErrors = r.batchErrors + 1]
    IN IF r2.batchErrors >= ERROR_THRESHOLD THEN AfterLoop(r2) ELSE NextIter(v, r2)

\* the catch of a sub-batch: batchErrors++, and break when batchErrors > 5
BatchFailed(v, r) ==
    LET r2 == [r EXCEPT !.batchErrors = r.batchErrors + 1]
    IN IF r2.batchErrors > ERROR_THRESHOLD THEN AfterLoop(r2) ELSE NextIter(v, r2)

\* the sub-batch the invocation is in
CurrentRange(v, r) == <<r.start, BatchEnd(v, r.start, r.targetBlock)>>

\* what the three awaited calls can answer
ReadOutcomes == {"ok", "error"}
HeadOutcomes(v) == IF v = "blockscout" THEN {"ok", "throws", "unusable"}
                                       ELSE {"ok", "throws"}
LogsOutcomes(v) == IF v = "blockscout" THEN {"ok", "throws", "status0"}
                                       ELSE {"ok", "throws"}
WriteOutcomes == {"ok", "error"}

\* the handler up to the await of the head: the cursor is read, fromBlock set
StartSyncWith(p, outcome) ==
    /\ run[p].pc \notin InFlight
    /\ calls < MaxCalls
    /\ LET row == IF outcome = "ok" THEN metadata ELSE None
       IN /\ run' = [run EXCEPT ![p] =
                        [IdleRun EXCEPT !.pc = "head",
                                        !.fromBlock = ReadFromBlock(row),
                                        !.lastProcessedBlock = ReadFromBlock(row),
                                        !.start = ReadFromBlock(row)]]
          /\ faultSeen' = (faultSeen \/ (outcome = "error" /\ metadata # None))
    /\ calls' = calls + 1
    /\ UNCHANGED <<variant, chainHead, now, metadata, store,
                   interrupted>>

StartSync(p) == \E outcome \in ReadOutcomes : StartSyncWith(p, outcome)

\* the head is answered: the run's target is set and the loop is entered
GetHeadWith(p, outcome) ==
    /\ run[p].pc = "head"
    /\ LET r == run[p]
           cur == IF outcome = "ok" THEN Some(chainHead) ELSE None
           r2 == [r EXCEPT !.currentBlock = cur,
                           !.targetBlock = TargetBlock(variant, r.fromBlock, cur),
                           !.totalBlocksToSync = JsSub(cur, r.fromBlock)]
       IN /\ run' = [run EXCEPT ![p] =
               IF outcome = "throws"
               THEN [r EXCEPT !.pc = "done",
                              !.result = Some(ErrorResult(r,
                                   IF variant = "blockscout" THEN 503 ELSE 500))]
               ELSE IF JsLt(r2.start, r2.targetBlock)
                    THEN [r2 EXCEPT !.pc = "logs"]
                    ELSE AfterLoop(r2)]
          /\ faultSeen' = (faultSeen \/ outcome # "ok")
    /\ UNCHANGED <<variant, chainHead, now, metadata, store, calls,
                   interrupted>>

GetHead(p) == \E outcome \in HeadOutcomes(variant) : GetHeadWith(p, outcome)

\* the log query of the sub-batch is answered
GetLogsWith(p, outcome) ==
    /\ run[p].pc = "logs"
    /\ LET r == run[p]
           range == CurrentRange(variant, r)
           logs == LogsInRange(variant, chainHead, range[1], range[2])
           r2 == CASE outcome = "throws" -> BatchFailed(variant, r)
                   [] outcome = "status0" -> BatchDone(variant, r)
                   [] OTHER -> ThroughLogs(variant, r, logs)
       IN /\ run' = [run EXCEPT ![p] = r2]
          /\ faultSeen' = (faultSeen \/ outcome = "throws"
                                     \/ (outcome = "status0" /\ logs # <<>>))
    /\ UNCHANGED <<variant, chainHead, now, metadata, store, calls,
                   interrupted>>

GetLogs(p) == \E outcome \in LogsOutcomes(variant) : GetLogsWith(p, outcome)

\* the upsert of one log's rows is answered; the handler runs on to its next await
UpsertDoneWith(p, outcome) ==
    /\ run[p].pc = "upsert"
    /\ LET r == run[p]
           log == Head(r.pending)
           batch == WinnerRows(log, now)
           ok == outcome = "ok"
           r1 == [r EXCEPT !.processedEvents =
                               IF ok THEN r.processedEvents + Len(log.winners)
                                     ELSE r.processedEvents,
                           !.clean = r.clean /\ ok,
                           !.wrote = r.wrote \/ ok]
           r2 == ThroughLogs(variant, r1, Tail(r.pending))
       IN /\ run' = [run EXCEPT ![p] = r2]
          /\ store' = IF ok THEN Upsert(store, batch) ELSE store
          /\ faultSeen' = (faultSeen \/ ~ok)
    /\ UNCHANGED <<variant, chainHead, now, metadata, calls, interrupted>>

UpsertDone(p) == \E outcome \in WriteOutcomes : UpsertDoneWith(p, outcome)

\* the upsert of the cursor is answered and the response is returned
WriteCursorWith(p, outcome) ==
    /\ run[p].pc = "cursor"
    /\ metadata' = IF outcome = "ok" THEN Some(run[p].lastProcessedBlock)
                                     ELSE metadata
    /\ faultSeen' = (faultSeen \/ outcome # "ok")
    /\ run' = [run EXCEPT ![p] = Finish(run[p])]
    /\ UNCHANGED <<variant, chainHead, now, store, calls,
                   interrupted>>

WriteCursor(p) == \E outcome \in WriteOutcomes : WriteCursorWith(p, outcome)

\* the platform cuts the invocation off at an await (wall-clock limit, crash)
Kill(p) ==
    /\ run[p].pc \in InFlight
    /\ run' = [run EXCEPT ![p] = [run[p] EXCEPT !.pc = "killed", !.pending = <<>>]]
    /\ interrupted' = (interrupted \/ run[p].wrote)
    /\ UNCHANGED <<variant, chainHead, now, metadata, store, calls,
                   faultSeen>>

\* the chain grows
AdvanceHead ==
    /\ \E h \in Heads(variant) : h > chainHead /\ chainHead' = h
    /\ UNCHANGED <<variant, now, metadata, store, run, calls,
                   faultSeen, interrupted>>

\* time passes
Tick(limit) ==
    /\ now < limit * TickMs
    /\ now' = now + TickMs
    /\ UNCHANGED <<variant, chainHead, metadata, store, run, calls,
                   faultSeen, interrupted>>

----------------------------------------------------------------------------
(* The external ranking API and the merge of buildFullLeaderboard *)

\* the peers, in the order of String.prototype.localeCompare: the collation
\* compares the letters first and their case last, so "P4" follows "p3"
PeerOrder == <<"p1", "p2", "p3", "P4">>

PeerIndex(id) == CHOOSE i \in 1..Len(PeerOrder) : PeerOrder[i] = id

\* the same peers in the lexicographic order of their code units ("P" is 0x50,
\* "p" is 0x70)
CodeUnitOrder == <<"P4", "p1", "p2", "p3">>

\* a < b as strings, code unit by code unit
CodeUnitBefore(a, b) ==
    (CHOOSE i \in 1..Len(CodeUnitOrder) : CodeUnitOrder[i] = a)
      < (CHOOSE i \in 1..Len(CodeUnitOrder) : CodeUnitOrder[i] = b)

\* a.peerId.localeCompare(b.peerId) < 0
LocaleBefore(a, b) == PeerIndex(a) < PeerIndex(b)

\* a ?? b ?? c ?? 0 over fields that may be absent
Nullish3(a, b, c) ==
    IF a # None THEN a[1] ELSE IF b # None THEN b[1] ELSE IF c # None THEN c[1] ELSE 0

\* a || b || 0 over numeric fields that may be absent: 0 is falsy
Falsy2(a, b) ==
    IF a # None /\ a[1] # 0 THEN a[1] ELSE IF b # None /\ b[1] # 0 THEN b[1] ELSE 0

\* a || b || c || 0
Falsy3(a, b, c) ==
    IF a # None /\ a[1] # 0 THEN a[1] ELSE Falsy2(b, c)

\* an entry of GET /leaderboard
LbEntry(id, participation, trainingRewards) ==
    [peerId |-> id, participation |-> participation, participations |-> None,
     score |-> None, trainingRewards |-> trainingRewards, training_rewards |-> None,
     reward |-> None]

\* a peer of GET /gossip-messages
GossipPeer(id, score, reward) ==
    [peerId |-> id, participations |-> None, score |-> score,
     rewards |-> None, reward |-> reward]

\* an entry of GET /top-rewards
RewardEntry(id, totalRewards) ==
    [peerId |-> id, totalRewards |-> totalRewards, total_rewards |-> None,
     reward |-> None, participations |-> None, score |-> None]

\* what the six endpoints can answer in one round
ApiSnapshots ==
    { [leaderboard |-> <<LbEntry("p1", Some(5), Some(2))>>,
       gossip      |-> <<>>,
       topRewards  |-> <<>>,
       updatedAt   |-> Some(7),
       completedTransactions |-> 3, count |-> 2, uniqueVoters |-> 1],
      [leaderboard |-> <<LbEntry("p2", Some(1), Some(1)),
                         [LbEntry("p1", None, None) EXCEPT !.score = Some(1),
                                                          !.reward = Some(4)]>>,
       gossip      |-> <<GossipPeer("p3", Some(1), Some(1)),
                         GossipPeer("p1", Some(9), None)>>,
       topRewards  |-> <<RewardEntry("p3", Some(6)), RewardEntry("p2", Some(0))>>,
       updatedAt   |-> None,
       completedTransactions |-> 0, count |-> 0, uniqueVoters |-> 0],
      [leaderboard |-> <<LbEntry("p1", Some(5), None)>>,
       gossip      |-> <<>>,
       topRewards  |-> <<>>,
       updatedAt   |-> Some(8),
       completedTransactions |-> 1, count |-> 1, uniqueVoters |-> 1],
      [leaderboard |-> <<LbEntry("p2", Some(1), Some(1)),
                         LbEntry("P4", Some(1), Some(1)),
                         LbEntry("p1", Some(1), Some(1))>>,
       gossip      |-> <<>>,
       topRewards  |-> <<>>,
       updatedAt   |-> Some(9),
       completedTransactions |-> 2, count |-> 3, uniqueVoters |-> 3] }

\* peerMap is kept as the sequence of its entries in insertion order
MapHas(m, id) == \E i \in 1..Len(m) : m[i].peerId = id

MapIndex(m, id) == CHOOSE i \in 1..Len(m) : m[i].peerId = id

\* peerMap.set(id, metrics): an existing key keeps its place
MapSet(m, id, metrics) ==
    LET e == [peerId |-> id, participations |-> metrics.participations,
              wins |-> metrics.wins, source |-> metrics.source]
    IN IF MapHas(m, id) THEN [m EXCEPT ![MapIndex(m, id)] = e] ELSE Append(m, e)

RECURSIVE AddLeaderboard(_, _)
\* lines 93-102: every entry of /leaderboard is set
AddLeaderboard(m, entries) ==
    IF entries = <<>> THEN m
    ELSE LET e == Head(entries)
         IN AddLeaderboard(
              MapSet(m, e.peerId,
                     [participations |-> Nullish3(e.participation, e.participations, e.score),
                      wins |-> Nullish3(e.trainingRewards, e.training_rewards, e.reward),
                      source |-> "api"]),
              Tail(entries))

RECURSIVE AddGossip(_, _)
\* lines 105-114: a gossip peer is added when the map does not have it
AddGossip(m, peers) ==
    IF peers = <<>> THEN m
    ELSE LET e == Head(peers)
         IN AddGossip(
              IF MapHas(m, e.peerId) THEN m
              ELSE MapSet(m, e.peerId,
                          [participations |-> Falsy2(e.participations, e.score),
                           wins |-> Falsy2(e.rewards, e.reward),
                           source |-> "api"]),
              Tail(peers))

RECURSIVE AddTopRewards(_, _)
\* lines 117-133: wins of a known peer become the larger value
AddTopRewards(m, rewards) ==
    IF rewards = <<>> THEN m
    ELSE LET e == Head(rewards)
             r == Falsy3(e.totalRewards, e.total_rewards, e.reward)
         IN AddTopRewards(
              IF MapHas(m, e.peerId)
              THEN LET i == MapIndex(m, e.peerId)
                   IN [m EXCEPT ![i].wins = Max(m[i].wins, r)]
              ELSE MapSet(m, e.peerId,
                          [participations |-> Falsy2(e.participations, e.score),
                           wins |-> r, source |-> "api"]),
              Tail(rewards))

RECURSIVE AddEvents(_, _)
\* a merge in which an event of a peer the API reported only marks the peer
AddEventsMarkOnly(m, events) ==
    IF events = <<>> THEN m
    ELSE LET id == Head(events).peer_id
         IN AddEvents(
              IF MapHas(m, id)
              THEN [m EXCEPT ![MapIndex(m, id)].source = "both"]
              ELSE MapSet(m, id, [participations |-> 1, wins |-> 1,
                                  source |-> "blockchain"]),
              Tail(events))

\* lines 136-154: one stored event adds 1 to participations and to wins
AddEvents(m, events) ==
    IF events = <<>> THEN m
    ELSE LET id == Head(events).peer_id
         IN AddEvents(
              IF MapHas(m, id)
              THEN LET i == MapIndex(m, id)
                   IN [m EXCEPT ![i].participations = m[i].participations + 1,
                                ![i].wins = m[i].wins + 1,
                                ![i].source = "both"]
              ELSE MapSet(m, id, [participations |-> 1, wins |-> 1,
                                  source |-> "blockchain"]),
              Tail(events))

\* a comparator without the tie-break on peerId
BeforeByScoreOnly(a, b) ==
    IF b.participations # a.participations THEN b.participations < a.participations
    ELSE b.wins < a.wins

\* the comparator of the sort: a is placed before b
Before(a, b) ==
    IF b.participations # a.participations THEN b.participations < a.participations
    ELSE IF b.wins # a.wins THEN b.wins < a.wins
    ELSE LocaleBefore(a.peerId, b.peerId)

RECURSIVE InsertSorted(_, _)
InsertSorted(sorted, e) ==
    IF sorted = <<>> THEN <<e>>
    ELSE IF Before(e, Head(sorted)) THEN <<e>> \o sorted
    ELSE <<Head(sorted)>> \o InsertSorted(Tail(sorted), e)

RECURSIVE SortEntries(_)
\* Array.prototype.sort with the comparator, a stable sort
SortEntries(m) ==
    IF m = <<>> THEN <<>>
    ELSE InsertSorted(SortEntries(SubSeq(m, 1, Len(m) - 1)), m[Len(m)])

\* a ranking by score: entries with equal participations and wins share a rank
RankEntriesByScore(m) ==
    LET sorted == SortEntries(m)
    IN [ i \in 1..Len(sorted) |->
           [rank |-> 1 + Cardinality({ j \in 1..Len(sorted) :
                            \/ sorted[j].participations > sorted[i].participations
                            \/ /\ sorted[j].participations = sorted[i].participations
                               /\ sorted[j].wins > sorted[i].wins }),
            peerId |-> sorted[i].peerId,
            participations |-> sorted[i].participations, wins |-> sorted[i].wins] ]

\* lines 171-194: map, sort, then rank = index + 1
RankEntries(m) ==
    LET sorted == SortEntries(m)
    IN [ i \in 1..Len(sorted) |->
           [rank |-> i, peerId |-> sorted[i].peerId,
            participations |-> sorted[i].participations, wins |-> sorted[i].wins] ]

\* lines 157-166
CountSource(m, which) ==
    Cardinality({ i \in 1..Len(m) : m[i].source = which \/ m[i].source = "both" })

RECURSIVE RowsByBlock(_)
\* select('peer_id, round_number').order('block_number'): the rows of a bag as a
\* sequence, lowest block first
RowsByBlock(bag) ==
    IF BagToSet(bag) = {} THEN <<>>
    ELSE LET r == CHOOSE x \in BagToSet(bag) :
                      \A y \in BagToSet(bag) : x.block_number <= y.block_number
         IN <<[peer_id |-> r.peer_id, round_number |-> r.round_number]>>
            \o RowsByBlock(bag (-) SetToBag({r}))

\* lines 89-154: peerMap after the four passes; events is the answer of the
\* select, None when it returned an error
PeerMap(api, events) ==
    LET m1 == AddLeaderboard(<<>>, api.leaderboard)
        m2 == AddGossip(m1, api.gossip)
        m3 == AddTopRewards(m2, api.topRewards)
    IN IF events # None /\ Len(events[1]) > 0 THEN AddEvents(m3, events[1]) ELSE m3

\* lines 89-222: the CacheData built from one round of answers; events is the
\* answer of the select, None when it returned an error
BuildResult(api, events, clock) ==
    LET peerMap == PeerMap(api, events)
        entries == RankEntries(peerMap)
    IN [entries   |-> entries,
        updatedAt |-> IF api.updatedAt # None /\ api.updatedAt[1] # 0
                      THEN api.updatedAt[1] ELSE clock,
        stats     |-> [currentRound |-> api.completedTransactions,
                       currentStage |-> api.count,
                       uniqueVoters |-> api.uniqueVoters,
                       uniqueVotedPeers |-> Len(entries)],
        peerSources |-> [fromApi |-> CountSource(peerMap, "api"),
                         fromBlockchain |-> CountSource(peerMap, "blockchain"),
                         total |-> Len(peerMap)]]

----------------------------------------------------------------------------
(* The leaderboard function: buildFullLeaderboard and the serve handler *)

\* limit and offset are the parsed query parameters, events is what the select
\* returned; rounds, upstream and readStore record what the request has done:
\* the rounds of fetching it started, how the round ended, whether it read the
\* store
IdleReq == [pc |-> "idle", limit |-> 100, offset |-> 0, now |-> 0, api |-> None,
            events |-> None, rounds |-> 0, upstream |-> "none",
            readStore |-> FALSE, response |-> None]

\* parseInt(searchParams.get('limit') || '100'), parseInt(... 'offset' || '0')
\* no parameters, or the first or the second page of PageSize or of 50 entries
Queries == { [limit |-> 100, offset |-> 0] }
             \cup { [limit |-> len, offset |-> off] :
                      len \in {PageSize, 50}, off \in {0, PageSize, 50} }

Building == {"api", "db"}

\* a cache test that ignores the age of the entry
IsFreshNoTtl(c, stamp, clock) == c # None

\* cache && (now - cacheTimestamp) < CACHE_TTL
IsFresh(c, stamp, clock) == c # None /\ clock - stamp < CACHE_TTL

\* the 200 response of the serve handler
Serve200(data) ==
    [status |-> 200,
     body |-> Some([entries |-> data.entries, total |-> Len(data.entries),
                    updatedAt |-> data.updatedAt, stats |-> data.stats,
                    peerSources |-> data.peerSources])]

\* a catch that answers an empty leaderboard
ServeEmpty200 ==
    [status |-> 200,
     body |-> Some([entries |-> <<>>, total |-> 0, updatedAt |-> 0,
                    stats |-> [currentRound |-> 0, currentStage |-> 0,
                               uniqueVoters |-> 0, uniqueVotedPeers |-> 0],
                    peerSources |-> [fromApi |-> 0, fromBlockchain |-> 0, total |-> 0]])]

\* the 500 response of the serve handler's catch
Serve500 == [status |-> 500, body |-> None]

\* a catch that never serves the stale entry
RethrowAlways(c) == [status |-> 500, body |-> None]

\* the catch of buildFullLeaderboard: the cached entry if there is one, else the
\* error is thrown on to the serve handler, which answers 500
StaleOrThrow(c) == IF c # None THEN Serve200(c[1]) ELSE Serve500

\* a request arrives: the cache is served when fresh, else the six endpoints are
\* fetched
BuildStart(q) ==
    /\ req[q].pc \notin Building
    /\ \E query \in Queries :
         LET r == [IdleReq EXCEPT !.limit = query.limit, !.offset = query.offset,
                                  !.now = now]
         IN req' = [req EXCEPT ![q] =
                      IF IsFresh(cache, cacheTimestamp, now)
                      THEN [r EXCEPT !.pc = "done",
                                     !.response = Some(Serve200(cache[1]))]
                      ELSE [r EXCEPT !.pc = "api", !.rounds = 1]]
    /\ UNCHANGED <<cache, cacheTimestamp>>

\* a catch that stamps the entry it serves with the time of the failed call
StampRefreshed(stamp, callNow) == callNow

\* lines 230-240: the catch does not assign cacheTimestamp
StampAfterCatch(stamp, callNow) == stamp

\* Promise.all of the six fetches settles
ApiDone(q) ==
    /\ req[q].pc = "api"
    /\ \/ /\ \E api \in ApiSnapshots :
               req' = [req EXCEPT ![q] = [req[q] EXCEPT !.pc = "db",
                                                        !.api = Some(api),
                                                        !.upstream = "ok"]]
          /\ cacheTimestamp' = cacheTimestamp
       \/ /\ req' = [req EXCEPT ![q] = [req[q] EXCEPT !.pc = "done",
                                                      !.upstream = "failed",
                                                      !.response = Some(StaleOrThrow(cache))]]
          /\ cacheTimestamp' = StampAfterCatch(cacheTimestamp, req[q].now)
    /\ cache' = cache

\* the select of winner_events is answered; the merge runs and the cache is set
DbDone(q) ==
    /\ req[q].pc = "db"
    /\ \E outcome \in ReadOutcomes :
         LET events == IF outcome = "ok" THEN Some(RowsByBlock(store)) ELSE None
             result == BuildResult(req[q].api[1], events, now)
         IN /\ cache' = Some(result)
            /\ cacheTimestamp' = req[q].now
            /\ req' = [req EXCEPT ![q] = [req[q] EXCEPT !.pc = "done",
                                                        !.events = events,
                                                        !.readStore = TRUE,
                                                        !.response = Some(Serve200(result))]]

\* the listener stores the rows of one log (its upsert, seen from the leaderboard)
ListenerWrites ==
    /\ \E i \in 1..Len(ChainLogs(variant)) :
         /\ Writable(ChainLogs(variant)[i])
         /\ store' = Upsert(store, WinnerRows(ChainLogs(variant)[i], now))
         /\ store' # store
    /\ UNCHANGED <<variant, chainHead, now, metadata, run, calls, faultSeen,
                   interrupted>>

\* SyncProgressPanel: autoSync, isRunning and totalProcessedEvents are the
\* syncStatus fields that its logic reads; deps are the dependencies of the
\* effect that ran last (runSync changes with totalProcessedEvents); waits says,
\* per invocation, who awaits its runSync (an autoSyncLoop or handleManualSync)
\* and what a loop's closure holds (mounted, syncStatus.autoSync); timer says
\* that setTimeout(autoSyncLoop, 2000) is armed
NoWait == [kind |-> "none", mounted |-> FALSE, loopAutoSync |-> FALSE]

IdlePanel ==
    [autoSync |-> FALSE, isRunning |-> FALSE, totalProcessedEvents |-> 0,
     deps |-> <<FALSE, FALSE, 0>>, waits |-> [p \in Procs |-> NoWait],
     timer |-> FALSE]

PanelInit == panel = IdlePanel

\* [syncStatus.autoSync, syncStatus.isRunning, runSync]
CurrentDeps(p) == <<p.autoSync, p.isRunning, p.totalProcessedEvents>>

\* React has rendered the current state and run its effects: it does so as soon
\* as the state is set, before a click, a response of the network or a 2-second
\* timer can be handled
Rendered == CurrentDeps(panel) = panel.deps

\* a runSync of the panel awaits invocation p
Awaited(p) == panel.waits[p].kind # "none"

\* the panel awaits some invocation
Awaiting == \E p \in Procs : Awaited(p)

\* the invocations of the panel that are in flight
InFlightCalls == { p \in Procs : Awaited(p) /\ run[p].pc \in InFlight }

\* runSync starts for a caller of the given kind: it sets isRunning, and the
\* caller awaits invocation p
RunSyncStarts(pn, p, kind, closureAutoSync) ==
    [pn EXCEPT !.isRunning = TRUE,
               !.waits[p] = [kind |-> kind, mounted |-> kind = "loop",
                             loopAutoSync |-> closureAutoSync]]

\* supabase.functions.invoke('blockchain-listener'): a new invocation, in the
\* first slot that is not in use
Invoke(p) ==
    /\ run[p].pc \notin InFlight /\ ~Awaited(p)
    /\ \A q \in Procs : (run[q].pc \notin InFlight /\ ~Awaited(q)) => p <= q
    /\ StartSyncWith(p, "ok")

\* the Auto-Sync All button, rendered while autoSync is off and enabled while
\* isRunning is off
HandleStartAutoSync ==
    /\ Rendered
    /\ ~panel.autoSync /\ ~panel.isRunning
    /\ panel' = [panel EXCEPT !.autoSync = TRUE, !.totalProcessedEvents = 0]
    /\ UNCHANGED <<syncVars, lbVars, index>>

\* the Stop Sync button, rendered while autoSync is on
HandleStopAutoSync ==
    /\ Rendered
    /\ panel.autoSync
    /\ panel' = [panel EXCEPT !.autoSync = FALSE, !.isRunning = FALSE]
    /\ UNCHANGED <<syncVars, lbVars, index>>

\* the Sync Once button, rendered while autoSync is off and enabled while
\* isRunning is off: handleManualSync awaits runSync
HandleManualSync ==
    /\ Rendered
    /\ ~panel.autoSync /\ ~panel.isRunning
    /\ \E p \in Procs :
         /\ Invoke(p)
         /\ panel' = RunSyncStarts(panel, p, "manual", panel.autoSync)
    /\ UNCHANGED <<lbVars, index>>

\* React renders the changed state and commits: the cleanup of the effect that
\* ran last clears its mounted flag and its timer, then the effect runs again and
\* calls autoSyncLoop if autoSync is on and isRunning is off
Commit ==
    /\ CurrentDeps(panel) # panel.deps
    /\ LET cleaned ==
             [panel EXCEPT !.waits = [p \in Procs |->
                                        [panel.waits[p] EXCEPT !.mounted = FALSE]],
                           !.timer = FALSE,
                           !.deps = CurrentDeps(panel)]
       IN IF panel.autoSync /\ ~panel.isRunning
          THEN \E p \in Procs :
                 /\ Invoke(p)
                 /\ panel' = RunSyncStarts(cleaned, p, "loop", panel.autoSync)
          ELSE /\ panel' = cleaned
               /\ UNCHANGED syncVars
    /\ UNCHANGED <<lbVars, index>>

\* a catch that leaves auto-sync on
AfterFailureKeepsAutoSync(pn, p) ==
    [pn EXCEPT !.isRunning = FALSE, !.waits[p] = NoWait]

\* the catch of runSync: isRunning: false, autoSync: false, and runSync returns
\* false
AfterFailure(pn, p) ==
    [pn EXCEPT !.isRunning = FALSE, !.autoSync = FALSE, !.waits[p] = NoWait]

\* invocation p is answered: runSync sets the state from the response, or from
\* the error of a response that is not 2xx, and returns needsMore; an
\* autoSyncLoop then arms the timer if its effect is still mounted
Response(p) ==
    /\ Rendered
    /\ Awaited(p)
    /\ run[p].pc = "done" /\ run[p].result # None
    /\ LET data == run[p].result[1]
           w == panel.waits[p]
           needsMore == data.needsMoreSync /\ JsGt0(data.remainingBlocks)
       IN panel' =
            IF data.success
            THEN [panel EXCEPT !.isRunning = needsMore /\ panel.autoSync,
                               !.totalProcessedEvents = @ + data.processedEvents,
                               !.waits[p] = NoWait,
                               !.timer = \/ panel.timer
                                         \/ /\ w.kind = "loop" /\ w.mounted
                                            /\ needsMore /\ w.loopAutoSync]
            ELSE AfterFailure(panel, p)
    /\ UNCHANGED <<syncVars, lbVars, index>>

\* the 2-second timer fires: autoSyncLoop runs with the syncStatus of the render
\* whose effect armed it
TimerFires ==
    /\ Rendered
    /\ panel.timer
    /\ IF panel.deps[1] /\ ~panel.deps[2]
       THEN \E p \in Procs :
              /\ Invoke(p)
              /\ panel' = RunSyncStarts([panel EXCEPT !.timer = FALSE], p, "loop",
                                        panel.deps[1])
       ELSE /\ panel' = [panel EXCEPT !.timer = FALSE]
            /\ UNCHANGED syncVars
    /\ UNCHANGED <<lbVars, index>>

----------------------------------------------------------------------------
(* The Index page: the loaded entries, the search box, the page size and the *)
(* current page (src/pages/Index.tsx)                                        *)

\* peer identifiers are sequences of characters
Lower(ch) ==
    CASE ch = "Q" -> "q"
      [] ch = "A" -> "a"
      [] ch = "B" -> "b"
      [] OTHER -> ch

\* String.prototype.toLowerCase
ToLowerCase(str) == [i \in DOMAIN str |-> Lower(str[i])]

\* String.prototype.includes
Includes(str, sub) ==
    \E i \in 1..(Len(str) - Len(sub) + 1) : SubSeq(str, i, i + Len(sub) - 1) = sub

DigitChars == <<"0", "1", "2", "3", "4", "5", "6", "7", "8", "9">>

\* the identifier of the peer ranked i: every fourth one holds an "A", the
\* others a "B"; the decimal digits of i make the identifiers distinct
PeerIdOf(i) ==
    <<"Q", "m", IF i % 4 = 0 THEN "A" ELSE "B",
      DigitChars[((i \div 100) % 10) + 1], DigitChars[((i \div 10) % 10) + 1],
      DigitChars[(i % 10) + 1]>>

\* the entries of a leaderboard response of n peers
EntriesOfLength(n) == [i \in 1..n |-> [rank |-> i, peerId |-> PeerIdOf(i)]]

\* the lengths of the responses: the endpoint answers with at most 100 entries
\* (its default limit, the body of the invocation is not read)
ResponseLengths == {0, 40, 100}

\* what the user types into the search box
SearchQueries == {<<>>, <<"a">>, <<"B">>, <<"q", "m", "a">>, <<"z">>}

\* the options of the page-size select
PageSizes == {25, 50, 100}

DefaultPageSize == 50

IndexInit ==
    index = [allEntries |-> <<>>, loading |-> TRUE, searchQuery |-> <<>>,
             pageSize |-> DefaultPageSize, currentPage |-> 0, fetching |-> 1]

FilteredEntries(ix) ==
    IF ix.searchQuery = <<>> THEN ix.allEntries
    ELSE SelectSeq(ix.allEntries,
                   LAMBDA entry : Includes(ToLowerCase(entry.peerId),
                                           ToLowerCase(ix.searchQuery)))

\* Array.prototype.slice(start, end) for 0 <= start <= end
SliceOf(entries, start, end) ==
    IF start >= Len(entries) THEN <<>>
    ELSE SubSeq(entries, start + 1, Min(end, Len(entries)))

PaginatedEntries(ix) ==
    SliceOf(FilteredEntries(ix), ix.currentPage * ix.pageSize,
            ix.currentPage * ix.pageSize + ix.pageSize)

\* Math.ceil(filteredEntries.length / pageSize)
TotalPages(ix) == (Len(FilteredEntries(ix)) + ix.pageSize - 1) \div ix.pageSize

\* the pagination bar is rendered
PaginationShown(ix) == ~ix.loading /\ Len(FilteredEntries(ix)) > 0

\* the page resets the current page when the page size changes
HandlePageSizeChange ==
    /\ \E value \in PageSizes :
         index' = [index EXCEPT !.pageSize = value, !.currentPage = 0]
    /\ UNCHANGED <<syncVars, lbVars, panel>>

HandlePrevPage ==
    /\ PaginationShown(index)
    /\ index.currentPage > 0
    /\ index' = [index EXCEPT !.currentPage = index.currentPage - 1]
    /\ UNCHANGED <<syncVars, lbVars, panel>>

HandleNextPage ==
    /\ PaginationShown(index)
    /\ index.currentPage < TotalPages(index) - 1
    /\ index' = [index EXCEPT !.currentPage = index.currentPage + 1]
    /\ UNCHANGED <<syncVars, lbVars, panel>>

\* the search box hands the text to setSearchQuery
SetSearchQuery ==
    /\ \E value \in SearchQueries :
         /\ value # index.searchQuery
         /\ index' = [index EXCEPT !.searchQuery = value]
    /\ UNCHANGED <<syncVars, lbVars, panel>>

\* fetchLeaderboard is called by the refresh button, which is disabled while
\* loading, or by the sync panel's onSyncComplete
FetchLeaderboard ==
    /\ index.fetching < MaxFetches
    /\ \E caller \in {"button", "onSyncComplete"} :
         caller = "button" => ~index.loading
    /\ index' = [index EXCEPT !.loading = TRUE, !.fetching = index.fetching + 1]
    /\ UNCHANGED <<syncVars, lbVars, panel>>

\* the invocation of the leaderboard function returns
FetchReturns ==
    /\ index.fetching > 0
    /\ \E outcome \in {"ok", "error"} :
         IF outcome = "ok"
         THEN \E n \in ResponseLengths :
                index' = [index EXCEPT !.allEntries = EntriesOfLength(n),
                                       !.currentPage = 0,
                                       !.loading = FALSE,
                                       !.fetching = index.fetching - 1]
         ELSE index' = [index EXCEPT !.loading = FALSE,
                                     !.fetching = index.fetching - 1]
    /\ UNCHANGED <<syncVars, lbVars, panel>>

----------------------------------------------------------------------------
(* Initial states *)

LbInit ==
    /\ cache = None
    /\ cacheTimestamp = 0
    /\ req = [q \in Reqs |-> IdleReq]

SyncInit ==
    /\ variant \in Variants
    /\ chainHead \in Heads(variant)
    /\ now = 0
    /\ metadata = None
    /\ store = EmptyBag
    /\ run = [p \in Procs |-> IdleRun]
    /\ calls = 0
    /\ faultSeen = FALSE
    /\ interrupted = FALSE

Init == SyncInit /\ LbInit /\ PanelInit /\ IndexInit

\* the listener's invocations do not overlap (the orchestrator serializes them)
Next ==
    \/ (\E p \in {1} : StartSync(p)) /\ UNCHANGED <<lbVars, uiVars>>
    \/ (\E p \in {1} : GetHead(p)) /\ UNCHANGED <<lbVars, uiVars>>
    \/ (\E p \in {1} : GetLogs(p)) /\ UNCHANGED <<lbVars, uiVars>>
    \/ (\E p \in {1} : UpsertDone(p)) /\ UNCHANGED <<lbVars, uiVars>>
    \/ (\E p \in {1} : WriteCursor(p)) /\ UNCHANGED <<lbVars, uiVars>>
    \/ (\E p \in {1} : Kill(p)) /\ UNCHANGED <<lbVars, uiVars>>
    \/ AdvanceHead /\ UNCHANGED <<lbVars, uiVars>>
    \/ Tick(MaxTicks) /\ UNCHANGED <<lbVars, uiVars>>

Spec == Init /\ [][Next]_vars

\* the leaderboard function, one request at a time, while the store grows
LbNext ==
    \/ (\E q \in {1} : BuildStart(q)) /\ UNCHANGED <<syncVars, uiVars>>
    \/ (\E q \in {1} : ApiDone(q)) /\ UNCHANGED <<syncVars, uiVars>>
    \/ (\E q \in {1} : DbDone(q)) /\ UNCHANGED <<syncVars, uiVars>>
    \/ ListenerWrites /\ UNCHANGED <<lbVars, uiVars>>
    \/ Tick(LbMaxTicks) /\ UNCHANGED <<lbVars, uiVars>>

\* the chain is at its highest head while the leaderboard is observed
InitLb == Init /\ \A h \in Heads(variant) : h <= chainHead

SpecLb == InitLb /\ [][LbNext]_vars

\* the heads of a chain that stands still: those of Heads, the one that is
\* MAX_BLOCKS_PER_RUN above the start block and the next one
LiveHeads(v) ==
    Heads(v) \cup { START_BLOCK + MAX_BLOCKS_PER_RUN(v) + d : d \in {0, 1} }

InitLive ==
    /\ variant \in Variants
    /\ chainHead \in LiveHeads(variant)
    /\ now = 0
    /\ metadata = None
    /\ store = EmptyBag
    /\ run = [p \in Procs |-> IdleRun]
    /\ calls = 0
    /\ faultSeen = FALSE
    /\ interrupted = FALSE
    /\ LbInit
    /\ PanelInit
    /\ IndexInit

\* the caller invokes sync a first time, and again when the previous result has
\* needsMoreSync = true
Orchestrate(p) ==
    /\ run[p].pc = "idle" \/ (run[p].pc = "done" /\ run[p].result # None
                                /\ run[p].result[1].needsMoreSync)
    /\ StartSync(p)

\* the listener driven by that caller, with a fixed head and every RPC and store
\* operation answered without an error
LiveNext ==
    \/ (\E p \in {1} : Orchestrate(p)) /\ ~faultSeen' /\ UNCHANGED <<lbVars, uiVars>>
    \/ (\E p \in {1} : GetHead(p)) /\ ~faultSeen' /\ UNCHANGED <<lbVars, uiVars>>
    \/ (\E p \in {1} : GetLogs(p)) /\ ~faultSeen' /\ UNCHANGED <<lbVars, uiVars>>
    \/ (\E p \in {1} : UpsertDone(p)) /\ ~faultSeen' /\ UNCHANGED <<lbVars, uiVars>>
    \/ (\E p \in {1} : WriteCursor(p)) /\ ~faultSeen' /\ UNCHANGED <<lbVars, uiVars>>

\* an awaited operation is answered in the end and the caller does invoke again
SpecLive == InitLive /\ [][LiveNext]_vars /\ WF_vars(LiveNext)

\* two invocations that may overlap: nothing serializes the calls of the
\* function, and the chain grows between their head queries; every RPC and
\* store operation is answered without an error
ParNext ==
    \/ (\E p \in Procs : StartSyncWith(p, "ok")) /\ UNCHANGED <<lbVars, uiVars>>
    \/ (\E p \in Procs : GetHeadWith(p, "ok")) /\ UNCHANGED <<lbVars, uiVars>>
    \/ (\E p \in Procs : GetLogs(p)) /\ ~faultSeen' /\ UNCHANGED <<lbVars, uiVars>>
    \/ (\E p \in Procs : UpsertDoneWith(p, "ok")) /\ UNCHANGED <<lbVars, uiVars>>
    \/ (\E p \in Procs : WriteCursorWith(p, "ok")) /\ UNCHANGED <<lbVars, uiVars>>
    \/ AdvanceHead /\ UNCHANGED <<lbVars, uiVars>>

SpecPar == Init /\ [][ParNext]_vars

\* runSync got a response with needsMore false: the sync cycle is complete
SyncComplete(p) ==
    /\ run[p].pc = "done" /\ run[p].result # None
    /\ run[p].result[1].success
    /\ ~(run[p].result[1].needsMoreSync /\ JsGt0(run[p].result[1].remainingBlocks))

\* Index.tsx sends body {limit, offset}; the function reads its parameters from
\* the URL, where there are none, so that it sees the defaults
PageQuery(r) == r.limit = 100 /\ r.offset = 0

\* the request that onSyncComplete sends
CompletionFetch == 2

\* onSyncComplete is the page's fetchLeaderboard: it invokes the leaderboard
\* function, once per completed cycle
FetchOnComplete ==
    /\ SyncComplete(1)
    /\ req[CompletionFetch].pc = "idle"
    /\ BuildStart(CompletionFetch)
    /\ PageQuery(req'[CompletionFetch])

\* the page: fetchLeaderboard on mount and on Refresh (request 1), the panel's
\* sync cycle, and fetchLeaderboard again when the cycle completes; every RPC,
\* fetch and store operation is answered without an error
PageNext ==
    \/ (\E p \in {1} : Orchestrate(p)) /\ ~faultSeen' /\ UNCHANGED <<lbVars, uiVars>>
    \/ (\E p \in {1} : GetHeadWith(p, "ok")) /\ UNCHANGED <<lbVars, uiVars>>
    \/ (\E p \in {1} : GetLogs(p)) /\ ~faultSeen' /\ UNCHANGED <<lbVars, uiVars>>
    \/ (\E p \in {1} : UpsertDoneWith(p, "ok")) /\ UNCHANGED <<lbVars, uiVars>>
    \/ (\E p \in {1} : WriteCursorWith(p, "ok")) /\ UNCHANGED <<lbVars, uiVars>>
    \/ BuildStart(1) /\ PageQuery(req'[1]) /\ UNCHANGED <<syncVars, uiVars>>
    \/ FetchOnComplete /\ UNCHANGED <<syncVars, uiVars>>
    \/ (\E q \in Reqs : ApiDone(q) /\ req'[q].upstream = "ok") /\ UNCHANGED <<syncVars, uiVars>>
    \/ (\E q \in Reqs : DbDone(q) /\ req'[q].events # None) /\ UNCHANGED <<syncVars, uiVars>>
    \/ Tick(LbMaxTicks) /\ UNCHANGED <<lbVars, uiVars>>

SpecPage == Init /\ [][PageNext]_vars

\* the leaderboard function serving requests that overlap: the isolate handles a
\* request while another awaits its fetches or its select
CacheNext ==
    \/ (\E q \in Reqs : BuildStart(q) /\ PageQuery(req'[q]))
         /\ UNCHANGED <<syncVars, uiVars>>
    \/ (\E q \in Reqs : ApiDone(q)) /\ UNCHANGED <<syncVars, uiVars>>
    \/ (\E q \in Reqs : DbDone(q)) /\ UNCHANGED <<syncVars, uiVars>>
    \/ Tick(LbMaxTicks) /\ UNCHANGED <<lbVars, uiVars>>

SpecCache == InitLb /\ [][CacheNext]_vars

\* the panel after Start Auto-Sync, left alone, with the listener it invokes; the
\* head is fixed and every RPC and store operation is answered without an error
PanelNext ==
    \/ HandleStartAutoSync
    \/ Commit
    \/ (\E p \in {1} : Response(p))
    \/ (\E p \in {1} : GetHeadWith(p, "ok")) /\ UNCHANGED <<lbVars, uiVars>>
    \/ (\E p \in {1} : GetLogs(p)) /\ ~faultSeen' /\ UNCHANGED <<lbVars, uiVars>>
    \/ (\E p \in {1} : UpsertDoneWith(p, "ok")) /\ UNCHANGED <<lbVars, uiVars>>
    \/ (\E p \in {1} : WriteCursorWith(p, "ok")) /\ UNCHANGED <<lbVars, uiVars>>

\* React commits and the listener answers in the end; TimerFires is no step of
\* the specifications, as no reachable state has the timer armed
SpecPanel == InitLive /\ [][PanelNext]_vars /\ WF_vars(PanelNext)

\* the panel under any sequence of clicks on its three buttons, with the
\* invocations it makes; every RPC and store operation is answered without an
\* error
ButtonsNext ==
    \/ HandleStartAutoSync
    \/ HandleStopAutoSync
    \/ HandleManualSync
    \/ Commit
    \/ (\E p \in Procs : Response(p))
    \/ (\E p \in Procs : GetHeadWith(p, "ok")) /\ UNCHANGED <<lbVars, uiVars>>
    \/ (\E p \in Procs : GetLogs(p)) /\ ~faultSeen' /\ UNCHANGED <<lbVars, uiVars>>
    \/ (\E p \in Procs : UpsertDoneWith(p, "ok")) /\ UNCHANGED <<lbVars, uiVars>>
    \/ (\E p \in Procs : WriteCursorWith(p, "ok")) /\ UNCHANGED <<lbVars, uiVars>>

SpecButtons == Init /\ [][ButtonsNext]_vars

\* the panel and its buttons with a listener whose head query can fail, which
\* is what makes a response an error
FailingNext ==
    \/ HandleStartAutoSync
    \/ HandleStopAutoSync
    \/ HandleManualSync
    \/ Commit
    \/ (\E p \in Procs : Response(p))
    \/ (\E p \in Procs : GetHead(p)) /\ UNCHANGED <<lbVars, uiVars>>
    \/ (\E p \in Procs : GetLogsWith(p, "ok")) /\ UNCHANGED <<lbVars, uiVars>>
    \/ (\E p \in Procs : UpsertDoneWith(p, "ok")) /\ UNCHANGED <<lbVars, uiVars>>
    \/ (\E p \in Procs : WriteCursorWith(p, "ok")) /\ UNCHANGED <<lbVars, uiVars>>

SpecFailing == Init /\ [][FailingNext]_vars

\* the Index page with its fetches, on its own
IndexNext ==
    \/ HandlePageSizeChange
    \/ HandlePrevPage
    \/ HandleNextPage
    \/ SetSearchQuery
    \/ FetchLeaderboard
    \/ FetchReturns

SpecIndex == Init /\ [][IndexNext]_vars

\* a head ErrBatches sub-batches above the start block, or one that a single run
\* cannot reach
InitErr ==
    /\ variant \in Variants
    /\ chainHead \in { START_BLOCK + ErrBatches * BATCH_SIZE(variant) + 1,
                       START_BLOCK + MAX_BLOCKS_PER_RUN(variant)
                         + BATCH_SIZE(variant) + 1 }
    /\ now = 0
    /\ metadata = None
    /\ store = EmptyBag
    /\ run = [p \in Procs |-> IdleRun]
    /\ calls = 0
    /\ faultSeen = FALSE
    /\ interrupted = FALSE
    /\ LbInit
    /\ PanelInit
    /\ IndexInit

\* the listener whose log queries can fail while the head and the store answer
ErrNext ==
    \/ (\E p \in {1} : StartSyncWith(p, "ok")) /\ UNCHANGED <<lbVars, uiVars>>
    \/ (\E p \in {1} : GetHeadWith(p, "ok")) /\ UNCHANGED <<lbVars, uiVars>>
    \/ (\E p \in {1} : GetLogs(p)) /\ UNCHANGED <<lbVars, uiVars>>
    \/ (\E p \in {1} : UpsertDoneWith(p, "ok")) /\ UNCHANGED <<lbVars, uiVars>>
    \/ (\E p \in {1} : WriteCursorWith(p, "ok")) /\ UNCHANGED <<lbVars, uiVars>>

SpecErr == InitErr /\ [][ErrNext]_vars

\* the event sequences a store can hold: up to MaxEvents winners, one per
\* transaction, in block order
EventSeqs == UNION { [1..n -> {"p1", "p2", "P4"}] : n \in 0..MaxEvents }

TxNames == <<"0xb1", "0xb2", "0xb3", "0xb4", "0xb5">>

\* the winner_events rows of an event sequence
StoreOf(seq) ==
    SetToBag({ [peer_id          |-> seq[i],
                block_number     |-> START_BLOCK + i,
                transaction_hash |-> TxNames[i],
                round_number     |-> i,
                event_timestamp  |-> 0] : i \in 1..Len(seq) })

\* the merge applied to every API snapshot and every store of up to MaxEvents
\* events, with no writer running
InitMerge ==
    /\ variant = "blockscout"
    /\ chainHead = START_BLOCK + HeadOffset(variant, 0)
    /\ now = 0
    /\ metadata = None
    /\ \E seq \in EventSeqs : store = StoreOf(seq)
    /\ run = [p \in Procs |-> IdleRun]
    /\ calls = 0
    /\ faultSeen = FALSE
    /\ interrupted = FALSE
    /\ LbInit
    /\ PanelInit
    /\ IndexInit

MergeNext ==
    \/ (\E q \in {1} : BuildStart(q)) /\ UNCHANGED <<syncVars, uiVars>>
    \/ (\E q \in {1} : ApiDone(q)) /\ UNCHANGED <<syncVars, uiVars>>
    \/ (\E q \in {1} : DbDone(q)) /\ UNCHANGED <<syncVars, uiVars>>

SpecMerge == InitMerge /\ [][MergeNext]_vars

----------------------------------------------------------------------------
(* Shared definitions of the properties *)

\* the response of invocation p, when it has returned one
Returned(p) == run[p].pc = "done" /\ run[p].result # None

\* the stored rows without event_timestamp, which is the wall clock when the log
\* carries no timestamp
Proj(row) == [peer_id |-> row.peer_id, block_number |-> row.block_number,
              transaction_hash |-> row.transaction_hash,
              round_number |-> row.round_number]

\* the indices of the chain's logs of blocks lo..hi that are written
WritableIn(lo, hi) ==
    { i \in 1..Len(ChainLogs(variant)) :
        /\ Writable(ChainLogs(variant)[i])
        /\ lo <= ChainLogs(variant)[i].blockNumber
        /\ ChainLogs(variant)[i].blockNumber <= hi }

\* what a run over blocks lo..hi that meets no failure stores
ExpectedRows(lo, hi) ==
    UNION { { Proj(WinnerRows(ChainLogs(variant)[i], 0)[k]) :
                k \in 1..Len(ChainLogs(variant)[i].winners) } : i \in WritableIn(lo, hi) }

StoredRows == { Proj(r) : r \in BagToSet(store) }

RECURSIVE SumWinners(_)
SumWinners(S) ==
    IF S = {} THEN 0
    ELSE LET i == CHOOSE x \in S : TRUE
         IN Len(ChainLogs(variant)[i].winners) + SumWinners(S \ {i})

----------------------------------------------------------------------------
(* C1: the cursor is only advanced over fully processed blocks. Every block    *)
(* between the start block and the persisted cursor belongs to a sub-batch     *)
(* whose log query succeeded and whose rows were all persisted; so every       *)
(* winner row of a decodable log at or below the cursor is in the Event Store. *)
C1_CursorOnlyPastPersisted ==
    metadata # None =>
        ExpectedRows(START_BLOCK, metadata[1]) \subseteq StoredRows

(* C2: the persisted lastSyncedBlock never decreases over non-overlapping      *)
(* sync calls.                                                                 *)
C2_CursorMonotonic == [][CursorValue' >= CursorValue]_vars

(* C3: ingesting the same (transactionHash, peerId) twice, in one run or in    *)
(* different runs, leaves exactly one row for the pair and is not an error:    *)
(* no two stored rows share the pair, and a run that met no failure counts     *)
(* every winner of its range as processed, the re-ingested ones included.      *)
C3_NoDuplicateRows ==
    /\ \A r \in BagToSet(store) : CopiesIn(r, store) = 1
    /\ \A r1, r2 \in BagToSet(store) : Key(r1) = Key(r2) => r1 = r2
    /\ \A p \in Procs :
         (Returned(p) /\ run[p].result[1].success /\ ~faultSeen
            /\ run[p].lastProcessedBlock > run[p].fromBlock)
         => run[p].processedEvents =
              SumWinners(WritableIn(run[p].fromBlock, run[p].lastProcessedBlock))

\* a second call has re-ingested, from the start block, the rows that a call
\* cut off before its cursor write had stored
C3_Witness ==
    /\ interrupted /\ ~faultSeen
    /\ Returned(1) /\ run[1].result[1].success
    /\ run[1].fromBlock = START_BLOCK
    /\ run[1].processedEvents >= 2
    /\ store # EmptyBag

(* C4: a sync cut off after its writes and before its cursor write is resumed  *)
(* by fresh calls from the last persisted cursor, and these end with the Event *)
(* Store an uninterrupted run over the same range leaves: with no failure      *)
(* besides the interruption, a call starts at the persisted cursor (the start  *)
(* block if there is none), a returned call has stored every row up to its     *)
(* toBlock, and once a call has reached the chain head the store holds exactly *)
(* the rows of the chain, each once.                                           *)
C4_Resumable ==
    ~faultSeen =>
      \A p \in Procs :
        /\ run[p].pc \in InFlight
             => run[p].fromBlock = (IF metadata # None THEN metadata[1] ELSE START_BLOCK)
        /\ (Returned(p) /\ run[p].result[1].success)
             => ExpectedRows(START_BLOCK, run[p].result[1].toBlock) \subseteq StoredRows
        /\ (Returned(p) /\ run[p].result[1].success
              /\ run[p].result[1].toBlock = chainHead)
             => /\ StoredRows = ExpectedRows(START_BLOCK, chainHead)
                /\ BagCardinality(store) = Cardinality(ExpectedRows(START_BLOCK, chainHead))

\* a call was cut off after writing rows, and a later call has reached the head
C4_Witness ==
    /\ interrupted /\ ~faultSeen
    /\ Returned(1) /\ run[1].result[1].success
    /\ run[1].result[1].toBlock = chainHead
    /\ store # EmptyBag

(* C5: when the chain endpoint cannot report a head (the request fails or      *)
(* yields no usable block number) the call returns success = false, writes no  *)
(* events and leaves the Sync Cursor unchanged.                                *)
C5_HeadFailureIsError ==
    [][\A p \in Procs :
         (run[p].pc = "head" /\ run'[p].pc # "head" /\ run'[p].pc # "killed"
            /\ run'[p].currentBlock = None)
         => /\ run'[p].pc = "done"
            /\ run'[p].result # None
            /\ run'[p].result[1].success = FALSE
            /\ store' = store
            /\ metadata' = metadata]_vars

(* C6: after the sub-batch loop the Sync Cursor is written if and only if      *)
(* lastProcessedBlock > fromBlock, with exactly lastProcessedBlock (the        *)
(* toBlock of the result), and the next sync call starts from that block.      *)
C6_CursorWrittenIffProgress ==
    [][\A p \in Procs :
         /\ (run[p].pc \in InFlight /\ run'[p].pc = "done" /\ run'[p].result[1].success)
              => IF run'[p].result[1].toBlock > run'[p].result[1].fromBlock
                 THEN metadata' = Some(run'[p].result[1].toBlock)
                 ELSE metadata' = metadata
         /\ (run[p].pc \notin InFlight /\ run'[p].pc = "head")
              => run'[p].fromBlock =
                   (IF CursorValue # 0 THEN CursorValue ELSE START_BLOCK)]_vars

(* C7: every successful result has toBlock = lastProcessedBlock,               *)
(* remainingBlocks = currentBlock - toBlock and needsMoreSync =                *)
(* (remainingBlocks > 0), so needsMoreSync is false exactly when the run has   *)
(* processed up to the chain head it observed.                                 *)
C7_ResultConsistent ==
    \A p \in Procs :
      (Returned(p) /\ run[p].result[1].success) =>
        LET res == run[p].result[1]
        IN /\ res.toBlock = run[p].lastProcessedBlock
           /\ res.remainingBlocks = JsSub(res.currentBlock, res.toBlock)
           /\ res.needsMoreSync = JsGt0(res.remainingBlocks)
           /\ (res.needsMoreSync = FALSE)
                <=> (res.currentBlock # None /\ res.toBlock >= res.currentBlock[1])

(* C8 (as amended): a buildFullLeaderboard call that starts while a cache     *)
(* entry is younger than CACHE_TTL returns that entry unchanged and triggers   *)
(* no upstream fetch and no store read; a call that starts when there is no    *)
(* entry or the entry is CACHE_TTL old or older triggers exactly one round of  *)
(* upstream fetching and, when that round succeeds, replaces the cache with    *)
(* what it returns, stamped with the time the call started.                    *)
C8_CacheWindow ==
    [][\A q \in Reqs :
         LET fresh == cache # None /\ now - cacheTimestamp < CACHE_TTL
         IN /\ (req[q].pc \notin Building /\ req'[q] # req[q] /\ fresh)
                 => /\ req'[q].pc = "done"
                    /\ req'[q].response = Some(Serve200(cache[1]))
                    /\ req'[q].rounds = 0 /\ ~req'[q].readStore
                    /\ cache' = cache /\ cacheTimestamp' = cacheTimestamp
            /\ (req[q].pc \notin Building /\ req'[q] # req[q] /\ ~fresh)
                 => req'[q].pc = "api" /\ req'[q].rounds = 1
            /\ (req[q].pc \in Building /\ req'[q].pc = "done")
                 => req'[q].rounds = 1
            /\ (req[q].pc \in Building /\ req'[q].pc = "done"
                  /\ req'[q].upstream = "ok")
                 => /\ cache' # None
                    /\ req'[q].response = Some(Serve200(cache'[1]))
                    /\ cacheTimestamp' = req[q].now]_vars

\* a call that started after the build, within CACHE_TTL of it, was served the
\* cached entry without a fetch
C8_Witness ==
    /\ req[1].pc = "done" /\ req[1].rounds = 0 /\ ~req[1].readStore
    /\ cache # None /\ req[1].now > cacheTimestamp
    /\ req[1].response = Some(Serve200(cache[1]))

(* C8 as stated: the first call after the TTL has expired triggers one round   *)
(* of upstream fetching and replaces the cache.                                *)
C8_AfterExpiryReplaces ==
    [][\A q \in Reqs :
         (req[q].pc \in Building /\ req'[q].pc = "done" /\ cache # None
            /\ req[q].now - cacheTimestamp >= CACHE_TTL)
         => /\ req'[q].rounds = 1
            /\ cache' # None
            /\ req'[q].response = Some(Serve200(cache'[1]))
            /\ cacheTimestamp' = req[q].now]_vars

(* C9: once a build has succeeded, every later call returns a result: when     *)
(* the API fetch fails and a cache entry exists, however old, that entry is    *)
(* returned.                                                                   *)
C9_StaleOnFailure ==
    [][\A q \in Reqs :
         /\ (req'[q].pc = "done" /\ req'[q] # req[q] /\ cache # None)
              => /\ req'[q].response # None
                 /\ req'[q].response[1].status = 200
                 /\ req'[q].response[1].body # None
         /\ (req[q].pc = "api" /\ req'[q].pc = "done" /\ cache # None)
              => /\ req'[q].response = Some(Serve200(cache[1]))
                 /\ cache' = cache /\ cacheTimestamp' = cacheTimestamp]_vars

\* the fetch failed with an entry older than the TTL cached, and it was served
C9_Witness ==
    /\ req[1].pc = "done" /\ req[1].upstream = "failed"
    /\ cache # None /\ req[1].now - cacheTimestamp >= CACHE_TTL
    /\ req[1].response = Some(Serve200(cache[1]))

(* C10: when the API fetch fails on a cache miss and no entry was ever built,  *)
(* the failure leaves buildFullLeaderboard and the endpoint answers 500, with  *)
(* no entries.                                                                 *)
C10_NoCacheFailureIs500 ==
    [][\A q \in Reqs :
         (req[q].pc = "api" /\ req'[q].pc = "done" /\ cache = None)
         => /\ req'[q].response # None
            /\ req'[q].response[1].status = 500
            /\ req'[q].response[1].body = None
            /\ cache' = None]_vars

\* a request was answered 500 and nothing is cached
C10_Witness ==
    /\ req[1].pc = "done" /\ req[1].upstream = "failed"
    /\ req[1].response # None /\ req[1].response[1].status = 500
    /\ cache = None

----------------------------------------------------------------------------
(* Shared definitions of the merge properties *)

\* the peers of the events a request read, in the order read
EventPeers(events) ==
    IF events = None THEN <<>> ELSE [ i \in 1..Len(events[1]) |-> events[1][i].peer_id ]

\* a request that has built a leaderboard from the API and the select's answer
Built(q) == req[q].pc = "done" /\ req[q].upstream = "ok" /\ req[q].readStore

\* the API snapshot {p1: 5 participations}, with no reward field
OnlyFiveParticipations(api) ==
    /\ api.leaderboard = <<LbEntry("p1", Some(5), None)>>
    /\ api.gossip = <<>> /\ api.topRewards = <<>>

\* the entries of a map as a set
MapEntries(m) == { m[i] : i \in 1..Len(m) }

(* C11 (as amended): given the API snapshot {A: 5 participations}, with no     *)
(* reward reported, and the events [A, A, B] read from the Event Store, the    *)
(* merged result is {A: participations=7, wins=2, provenance=both} and         *)
(* {B: participations=1, wins=1, provenance=chain-only}: the API baseline of   *)
(* each field plus one per event, 5 + 2 and 0 + 2.                             *)
C11_MergeExample ==
    \A q \in Reqs : \A b \in {"p2", "P4"} :
      (Built(q) /\ OnlyFiveParticipations(req[q].api[1])
         /\ req[q].events # None /\ EventPeers(req[q].events) = <<"p1", "p1", b>>)
      => /\ MapEntries(PeerMap(req[q].api[1], req[q].events)) =
              { [peerId |-> "p1", participations |-> 7, wins |-> 2, source |-> "both"],
                [peerId |-> b, participations |-> 1, wins |-> 1,
                 source |-> "blockchain"] }
         /\ req[q].response[1].body[1].entries =
              << [rank |-> 1, peerId |-> "p1", participations |-> 7, wins |-> 2],
                 [rank |-> 2, peerId |-> b, participations |-> 1, wins |-> 1] >>

\* a leaderboard was built from {p1: 5 participations} and the events [p1, p1, p2]
C11_Witness ==
    /\ Built(1) /\ OnlyFiveParticipations(req[1].api[1])
    /\ EventPeers(req[1].events) = <<"p1", "p1", "p2">>
    /\ Len(req[1].response[1].body[1].entries) = 2

(* C11 as stated: for that snapshot and those events the merged result is      *)
(* {A: participations=7, wins=7, provenance=both} and {B: participations=1,    *)
(* wins=1, provenance=chain-only}.                                             *)
C11_WinsSeven ==
    \A q \in Reqs :
      (Built(q) /\ OnlyFiveParticipations(req[q].api[1])
         /\ req[q].events # None /\ EventPeers(req[q].events) = <<"p1", "p1", "p2">>)
      => MapEntries(PeerMap(req[q].api[1], req[q].events)) =
           { [peerId |-> "p1", participations |-> 7, wins |-> 7, source |-> "both"],
             [peerId |-> "p2", participations |-> 1, wins |-> 1,
              source |-> "blockchain"] }

\* the peers the API sources report
ApiPeers(api) ==
    { api.leaderboard[i].peerId : i \in 1..Len(api.leaderboard) }
      \cup { api.gossip[i].peerId : i \in 1..Len(api.gossip) }
      \cup { api.topRewards[i].peerId : i \in 1..Len(api.topRewards) }

\* the peers of the stored WinnerEvents
StorePeers == { r.peer_id : r \in BagToSet(store) }

\* request q completes a build in this step
Builds(q) == req[q].pc = "db" /\ req'[q].pc = "done"

(* C12: the map merged in one pass has exactly one entry per distinct peerId   *)
(* and its peers are exactly the peers the API sources report together with    *)
(* the peers of the stored WinnerEvents; the leaderboard has one entry per     *)
(* merged peer.                                                                *)
C12_MergedPeersAreUnion ==
    [][\A q \in Reqs :
         Builds(q) =>
           LET m == PeerMap(req'[q].api[1], req'[q].events)
               entries == req'[q].response[1].body[1].entries
           IN /\ \A i, j \in 1..Len(m) : m[i].peerId = m[j].peerId => i = j
              /\ { m[i].peerId : i \in 1..Len(m) } =
                   ApiPeers(req'[q].api[1]) \cup StorePeers
              /\ Len(entries) = Len(m)
              /\ { entries[i].peerId : i \in 1..Len(entries) } =
                   { m[i].peerId : i \in 1..Len(m) }]_vars

(* C13: after a merge pass the provenance of each peer names the sources that  *)
(* hold it: api-only iff only the API reports the peer, chain-only iff it      *)
(* appears only in stored WinnerEvents, however many, and both iff the API     *)
(* reports it and it appears in stored WinnerEvents.                           *)
C13_ProvenanceNamesSources ==
    [][\A q \in Reqs :
         Builds(q) =>
           LET m == PeerMap(req'[q].api[1], req'[q].events)
               api == ApiPeers(req'[q].api[1])
           IN \A i \in 1..Len(m) :
                /\ m[i].source = "api"
                     <=> (m[i].peerId \in api /\ m[i].peerId \notin StorePeers)
                /\ m[i].source = "blockchain"
                     <=> (m[i].peerId \notin api /\ m[i].peerId \in StorePeers)
                /\ m[i].source = "both"
                     <=> (m[i].peerId \in api /\ m[i].peerId \in StorePeers)]_vars

\* the entries of the leaderboard that request q was answered
Answered(q) == req[q].pc = "done" /\ req[q].response # None
                 /\ req[q].response[1].body # None

EntriesOf(q) == req[q].response[1].body[1].entries

(* C14 (as amended): the entries a build returns are totally ordered by        *)
(* participations descending, then wins descending, then peerId ascending in   *)
(* the order of String.prototype.localeCompare: every adjacent pair is in this *)
(* order, and of two peers with equal participations and wins the one whose    *)
(* peerId collates first ranks higher.                                         *)
C14_EntriesOrdered ==
    \A q \in Reqs :
      Answered(q) =>
        \A i \in 1..(Len(EntriesOf(q)) - 1) :
          LET a == EntriesOf(q)[i]
              b == EntriesOf(q)[i + 1]
          IN \/ a.participations > b.participations
             \/ a.participations = b.participations /\ a.wins > b.wins
             \/ a.participations = b.participations /\ a.wins = b.wins
                  /\ PeerIndex(a.peerId) < PeerIndex(b.peerId)

\* a leaderboard holds "p2" directly before "P4", with equal participations and
\* wins
C14_Witness ==
    /\ Answered(1)
    /\ \E i \in 1..(Len(EntriesOf(1)) - 1) :
         /\ EntriesOf(1)[i].peerId = "p2" /\ EntriesOf(1)[i + 1].peerId = "P4"
         /\ EntriesOf(1)[i].participations = EntriesOf(1)[i + 1].participations
         /\ EntriesOf(1)[i].wins = EntriesOf(1)[i + 1].wins

(* C14 as stated: the entries are ordered by participations descending, then   *)
(* wins descending, then peerId ascending, lexicographic on the identifier     *)
(* string.                                                                     *)
C14_LexicographicTieBreak ==
    \A q \in Reqs :
      Answered(q) =>
        \A i \in 1..(Len(EntriesOf(q)) - 1) :
          LET a == EntriesOf(q)[i]
              b == EntriesOf(q)[i + 1]
          IN \/ a.participations > b.participations
             \/ a.participations = b.participations /\ a.wins > b.wins
             \/ a.participations = b.participations /\ a.wins = b.wins
                  /\ CodeUnitBefore(a.peerId, b.peerId)

(* C15: in every built leaderboard of N entries the ranks are exactly 1..N in  *)
(* sequence order (the entry at 0-based position i has rank i + 1), so peers   *)
(* with equal scores still get distinct consecutive ranks.                     *)
C15_RanksArePositions ==
    \A q \in Reqs :
      Answered(q) => \A i \in 1..Len(EntriesOf(q)) : EntriesOf(q)[i].rank = i

\* a leaderboard holds two peers with equal participations and wins at ranks 2
\* and 3
C15_Witness ==
    /\ Answered(1) /\ Len(EntriesOf(1)) >= 3
    /\ EntriesOf(1)[2].participations = EntriesOf(1)[3].participations
    /\ EntriesOf(1)[2].wins = EntriesOf(1)[3].wins
    /\ EntriesOf(1)[2].rank = 2 /\ EntriesOf(1)[3].rank = 3

\* the entries offset+1 .. offset+limit of a ranked sequence
Slice(entries, offset, limit) ==
    IF offset >= Len(entries) THEN <<>>
    ELSE SubSeq(entries, offset + 1, Min(offset + limit, Len(entries)))

(* C16: requesting the endpoint with offset=0,limit=50 and then with           *)
(* offset=50,limit=50 over an unchanged merged state yields two disjoint,      *)
(* contiguous slices of the full ranked sequence, with no overlap and no gap:  *)
(* the answer to a query is the entries offset+1 .. offset+limit of the ranked *)
(* sequence the answer is taken from, and total is the length of that          *)
(* sequence.                                                                   *)
C16_PagesAreSlices ==
    [][\A q \in Reqs :
         (req'[q] # req[q] /\ req'[q].pc = "done" /\ req'[q].response[1].status = 200)
         => /\ req'[q].response[1].body[1].entries =
                 Slice(cache'[1].entries, req'[q].offset, req'[q].limit)
            /\ req'[q].response[1].body[1].total = Len(cache'[1].entries)]_vars

(* C17: with a fixed chain head and no RPC or store error, a caller that       *)
(* invokes sync again whenever the previous result has needsMoreSync = true    *)
(* reaches, after finitely many calls, a call that returns remainingBlocks = 0 *)
(* and needsMoreSync = false; every call made while the head is above the      *)
(* cursor strictly advances the cursor.                                        *)
C17_SyncCompletes ==
    /\ [][\A p \in Procs :
            (run[p].pc \in InFlight /\ run'[p].pc = "done"
               /\ run'[p].currentBlock # None
               /\ run'[p].currentBlock[1] > run'[p].fromBlock)
            => /\ metadata' # None
               /\ metadata'[1] > run'[p].fromBlock
               /\ metadata'[1] > CursorValue]_vars
    /\ <>(\E p \in Procs :
            /\ Returned(p)
            /\ run[p].result[1].remainingBlocks = Some(0)
            /\ run[p].result[1].needsMoreSync = FALSE)

\* the second call of the caller, started from a persisted cursor, has reached
\* the head
C17_Witness ==
    /\ calls = 2 /\ ~faultSeen
    /\ Returned(1) /\ run[1].fromBlock > START_BLOCK
    /\ metadata = Some(chainHead)
    /\ run[1].result[1].remainingBlocks = Some(0)
    /\ run[1].result[1].needsMoreSync = FALSE

(* C18: the Event Store is append-only: over any sequence of sync calls and    *)
(* leaderboard builds a stored WinnerEvent row is never deleted and none of    *)
(* its fields changes; a re-ingested duplicate leaves the existing row as it   *)
(* was.                                                                        *)
C18_AppendOnly ==
    [][/\ \A r \in BagToSet(store) : CopiesIn(r, store') >= CopiesIn(r, store)
       /\ \A r \in BagToSet(store) : \A r2 \in BagToSet(store') :
            Key(r2) = Key(r) => r2 = r]_vars

\* a call that started again from the start block, after a call was cut off
\* with rows written, has upserted every log of its range; the row of the log
\* without a timestamp still has a clock value of the past
C18_Witness ==
    /\ interrupted /\ calls = 2
    /\ Returned(1) /\ run[1].result[1].success /\ run[1].batchErrors = 0
    /\ run[1].fromBlock = START_BLOCK
    /\ run[1].lastProcessedBlock >= START_BLOCK + BATCH_SIZE(variant) - 1
    /\ run[1].processedEvents =
         SumWinners(WritableIn(run[1].fromBlock, run[1].lastProcessedBlock))
    /\ \E r \in BagToSet(store) :
         r.transaction_hash = "0xa2" /\ r.event_timestamp < now

(* C19: a failed log query for a sub-batch aborts the current sync call with   *)
(* the Sync Cursor unchanged and is surfaced to the caller as a failure.       *)
C19_FailedLogQueryAborts ==
    [][\A p \in Procs :
         (run[p].pc = "logs" /\ run'[p].batchErrors > run[p].batchErrors)
         => /\ run'[p].pc = "done"
            /\ run'[p].result # None
            /\ run'[p].result[1].success = FALSE
            /\ metadata' = metadata]_vars

\* the chain's logs of blocks lo..hi whose payload does not decode
UndecodableIn(lo, hi) ==
    { i \in 1..Len(ChainLogs(variant)) :
        /\ ~ChainLogs(variant)[i].decodable
        /\ lo <= ChainLogs(variant)[i].blockNumber
        /\ ChainLogs(variant)[i].blockNumber <= hi }

(* C20: a failure of one item of a sub-batch (a log whose payload does not     *)
(* decode, a row write that fails for another reason than a duplicate key)     *)
(* does not abort the run, and each such failure is counted in the batch-error *)
(* count that is compared with the threshold and reported as batchErrors.      *)
C20_ItemFailuresCounted ==
    [][\A p \in Procs :
         /\ (run[p].pc = "upsert" /\ run'[p] # run[p] /\ run'[p].pc # "killed"
               /\ run'[p].processedEvents = run[p].processedEvents)
              => /\ run'[p].batchErrors = run[p].batchErrors + 1
                 /\ run'[p].pc = "done" => run'[p].result[1].success
         /\ (run[p].pc \in InFlight /\ run'[p].pc = "done" /\ ~faultSeen'
               /\ run'[p].result[1].success
               /\ UndecodableIn(run'[p].fromBlock, run'[p].lastProcessedBlock) # {})
              => run'[p].batchErrors >=
                   Cardinality(UndecodableIn(run'[p].fromBlock,
                                             run'[p].lastProcessedBlock))]_vars

\* invocation p leaves the sub-batch loop in this step
LeavesLoop(p) == run[p].pc \in {"logs", "upsert"} /\ run'[p].pc \in {"cursor", "done"}

\* the loop of invocation p has a sub-batch left after the current one
MoreBatches(p) == JsLt(run[p].start + BATCH_SIZE(variant), run[p].targetBlock)

C22_RunIsBounded ==
    [][/\ \A p \in Procs :
            run'[p].pc \in {"logs", "upsert"}
            => /\ run'[p].currentBlock # None
               /\ run'[p].targetBlock =
                    Some(Min(run'[p].fromBlock + MAX_BLOCKS_PER_RUN(variant),
                             run'[p].currentBlock[1]))
               /\ CurrentRange(variant, run'[p])[1] >= run'[p].fromBlock
               /\ CurrentRange(variant, run'[p])[2] <= run'[p].targetBlock[1]
               /\ (run'[p].start - run'[p].fromBlock) \div BATCH_SIZE(variant) + 1
                    <= MAX_BLOCKS_PER_RUN(variant) \div BATCH_SIZE(variant)
       /\ metadata' # metadata
            => \E p \in Procs :
                 /\ run[p].pc = "cursor"
                 /\ metadata' = Some(run[p].lastProcessedBlock)
                 /\ metadata'[1] <= run[p].targetBlock[1]
                 /\ metadata'[1] <= run[p].fromBlock + MAX_BLOCKS_PER_RUN(variant)]_vars

\* a call that saw a head more than MAX_BLOCKS_PER_RUN above its fromBlock has
\* made its last request and written the cursor below fromBlock +
\* MAX_BLOCKS_PER_RUN
C22_Witness ==
    /\ Returned(1) /\ run[1].result[1].success /\ run[1].result[1].needsMoreSync
    /\ run[1].currentBlock[1] > run[1].fromBlock + MAX_BLOCKS_PER_RUN(variant)
    /\ run[1].targetBlock = Some(run[1].fromBlock + MAX_BLOCKS_PER_RUN(variant))
    /\ run[1].lastProcessedBlock = run[1].targetBlock[1] - 1
    /\ metadata = Some(run[1].lastProcessedBlock)

(* C23: within one run the sub-batches are requested in strictly increasing    *)
(* block order, each covers at most BATCH_SIZE blocks, and consecutive         *)
(* sub-batches are contiguous: the first starts at fromBlock and each next one *)
(* at the previous end + 1, so no block between fromBlock and the end of the   *)
(* last requested sub-batch is left out of every request.                      *)
C23_BatchesContiguous ==
    [][\A p \in Procs :
         /\ (run[p].pc = "head" /\ run'[p].pc = "logs")
              => run'[p].start = run'[p].fromBlock
         /\ run'[p].pc = "logs"
              => LET range == CurrentRange(variant, run'[p])
                 IN /\ range[1] <= range[2]
                    /\ range[2] - range[1] + 1 <= BATCH_SIZE(variant)
         /\ (run[p].pc \in {"logs", "upsert"} /\ run'[p].pc = "logs"
               /\ run'[p] # run[p])
              => /\ run'[p].start > run[p].start
                 /\ run'[p].start = CurrentRange(variant, run[p])[2] + 1
         /\ (run[p].pc = "upsert" /\ run'[p].pc = "upsert")
              => run'[p].start = run[p].start]_vars

\* a run is at its third request, the second one having failed
C23_Witness ==
    /\ run[1].pc = "logs" /\ run[1].batchErrors = 1
    /\ run[1].start = run[1].fromBlock + 2 * BATCH_SIZE(variant)
    /\ run[1].lastProcessedBlock = run[1].fromBlock + BATCH_SIZE(variant) - 1

(* C24: a sync run cut off from outside at any point of its execution loses    *)
(* at most the sub-batch in flight: every sub-batch completed before the       *)
(* cut-off is reflected in the persisted cursor, and the cursor never points   *)
(* past data that was not written. Stated for runs that meet no other failure. *)
C24_CutOffLosesOneBatch ==
    [][\A p \in Procs :
         (run[p].pc \in InFlight /\ run'[p].pc = "killed" /\ ~faultSeen')
         => /\ run[p].lastProcessedBlock > run[p].fromBlock
                 => /\ metadata' # None
                    /\ metadata'[1] >= run[p].lastProcessedBlock
            /\ metadata' # None
                 => ExpectedRows(START_BLOCK, metadata'[1]) \subseteq StoredRows']_vars

\* both invocations have returned
BothReturned == \A p \in Procs : Returned(p)

\* the highest block a returned invocation processed
HighestProcessed ==
    Max(run[1].lastProcessedBlock, run[2].lastProcessedBlock)

(* C25: two sync invocations that overlap in time (both read the cursor before *)
(* either writes it, with different chain heads or different stop blocks) are  *)
(* safe without locking: under every interleaving the persisted                *)
(* lastSyncedBlock never decreases, and once both have returned the Event      *)
(* Store holds the rows that the calls would have stored one after the other.  *)
C25_OverlappingCallsSafe ==
    [][/\ (metadata # None /\ metadata' # None) => metadata'[1] >= metadata[1]
       /\ BothReturned' =>
            StoredRows' = ExpectedRows(START_BLOCK, HighestProcessed')]_vars

\* the metrics the API passes alone give a peer: 0 and 0 when they do not
\* report it
Baseline(api, id) ==
    LET m == PeerMap(api, Some(<<>>))
    IN IF MapHas(m, id)
       THEN [participations |-> m[MapIndex(m, id)].participations,
             wins |-> m[MapIndex(m, id)].wins]
       ELSE [participations |-> 0, wins |-> 0]

\* the number of stored WinnerEvents of a peer
StoredEventsOf(id) ==
    Cardinality({ r \in BagToSet(store) : r.peer_id = id })

(* C26: for every peer of a merge pass, participations is the API baseline     *)
(* participations (0 if the API does not report the peer) plus the number of   *)
(* stored WinnerEvents of the peer, and wins is the API baseline wins (0 if    *)
(* absent) plus the same number: each stored event adds exactly 1 to both.     *)
C26_EventsAddOneToBoth ==
    [][\A q \in Reqs :
         Builds(q) =>
           LET m == PeerMap(req'[q].api[1], req'[q].events)
           IN \A id \in ApiPeers(req'[q].api[1]) \cup StorePeers :
                /\ MapHas(m, id)
                /\ m[MapIndex(m, id)].participations =
                     Baseline(req'[q].api[1], id).participations
                       + StoredEventsOf(id)
                /\ m[MapIndex(m, id)].wins =
                     Baseline(req'[q].api[1], id).wins + StoredEventsOf(id)]_vars

\* the rearrangements of a sequence
Reorderings(seq) ==
    { [ i \in 1..Len(seq) |-> seq[f[i]] ] : f \in Permutations(1..Len(seq)) }

\* the answers of the select that hold the same events in another order
ReadOrders(events) ==
    IF events = None THEN {None} ELSE { Some(x) : x \in Reorderings(events[1]) }

(* C27: the built leaderboard depends on the API snapshot and the multiset of  *)
(* WinnerEvents read, not on their order: reading the events in any other      *)
(* order, or ranking the entries of the merged map in any other order, gives   *)
(* the ranked sequence that the build returned, and so does building again     *)
(* from the same inputs.                                                       *)
C27_OrderIndependent ==
    [][\A q \in Reqs :
         Builds(q) =>
           LET api == req'[q].api[1]
               entries == req'[q].response[1].body[1].entries
           IN /\ \A events \in ReadOrders(req'[q].events) :
                   /\ RankEntries(PeerMap(api, events)) = entries
                   /\ BuildResult(api, events, now).entries = entries
              /\ \A m \in Reorderings(PeerMap(api, req'[q].events)) :
                   RankEntries(m) = entries]_vars

\* a build read two events of different peers that end with equal scores, so
\* that only the tie-break places them
C27_Witness ==
    /\ Built(1) /\ Answered(1)
    /\ req[1].events # None /\ Len(req[1].events[1]) >= 2
    /\ req[1].events[1][1].peer_id # req[1].events[1][2].peer_id
    /\ \E i, j \in 1..Len(EntriesOf(1)) :
         /\ i < j
         /\ {EntriesOf(1)[i].peerId, EntriesOf(1)[j].peerId} =
              {req[1].events[1][1].peer_id, req[1].events[1][2].peer_id}
         /\ EntriesOf(1)[i].participations = EntriesOf(1)[j].participations
         /\ EntriesOf(1)[i].wins = EntriesOf(1)[j].wins

\* request q ends in this step after a read of one of its sources failed: the
\* fetch of the API, or the select of winner_events
EndsWithFailedRead(q) ==
    /\ req[q].pc \in Building /\ req'[q].pc = "done"
    /\ req'[q].upstream = "failed" \/ (req'[q].readStore /\ req'[q].events = None)

(* C28: a leaderboard is ranked, returned and cached only over a fully merged  *)
(* map: when the read of either source fails during a build (the API fetch or  *)
(* the Event Store read), the cache is left as it was and the request is       *)
(* answered with the entry cached earlier or with an error, never with a       *)
(* leaderboard computed from one source only.                                  *)
C28_NoPartialLeaderboard ==
    [][\A q \in Reqs :
         EndsWithFailedRead(q) =>
           /\ cache' = cache /\ cacheTimestamp' = cacheTimestamp
           /\ \/ req'[q].response[1].status = 500
              \/ /\ cache # None
                 /\ req'[q].response[1] = Serve200(cache[1])]_vars

\* the peers of the leaderboard that request q was answered
AnsweredPeers(q) == { EntriesOf(q)[i].peerId : i \in 1..Len(EntriesOf(q)) }

(* C29: the completion of a sync cycle force-refreshes the Result Cache: the   *)
(* leaderboard fetched when the sync completes reflects the WinnerEvents that  *)
(* the sync stored, every peer of a stored event being in it, even when the    *)
(* previous build is younger than CACHE_TTL.                                   *)
C29_CompletionFetchIsFresh ==
    (req[CompletionFetch].pc = "done" /\ Answered(CompletionFetch))
      => StorePeers \subseteq AnsweredPeers(CompletionFetch)

\* the last call of the panel returned needsMoreSync = true and auto-sync is on
NeedsMore ==
    /\ panel.autoSync /\ ~Awaiting
    /\ run[1].pc = "done" /\ run[1].result # None
    /\ run[1].result[1].success
    /\ run[1].result[1].needsMoreSync /\ JsGt0(run[1].result[1].remainingBlocks)

(* C30: while auto-sync is active and each sync call succeeds with             *)
(* needsMoreSync = true, the panel eventually invokes the blockchain-listener  *)
(* again: whenever the panel is in NeedsMore (and the bound on calls leaves    *)
(* room for one), a further call follows.                                      *)
C30_NeedsMoreLeadsToCall ==
    (NeedsMore /\ calls < MaxCalls) ~> Awaiting

\* invocation p returned a 200 response after a loop that met no failed log query
\* and so ran to the end of its range
CoveredItsRange(p) ==
    /\ Returned(p) /\ run[p].result[1].success
    /\ run[p].batchErrors = 0 /\ ~faultSeen

(* C31: a run that meets no error and covers its whole range returns           *)
(* toBlock = targetBlock for every fromBlock and chain head, also when         *)
(* targetBlock - fromBlock is an exact multiple of BATCH_SIZE; when            *)
(* targetBlock is the chain head such a run returns remainingBlocks = 0 and    *)
(* needsMoreSync = false.                                                      *)
C31_ToBlockIsTarget ==
    \A p \in Procs :
      CoveredItsRange(p) =>
        /\ Some(run[p].result[1].toBlock) = run[p].targetBlock
        /\ run[p].targetBlock = run[p].currentBlock
             => /\ run[p].result[1].remainingBlocks = Some(0)
                /\ ~run[p].result[1].needsMoreSync

\* invocation p reads the cursor and computes its fromBlock in this step
Starts(p) == run[p].pc \notin InFlight /\ run'[p].pc = "head"

(* C32: the configured start block is used only when no Sync Cursor row        *)
(* exists: when a row exists a call starts from its lastSyncedBlock, whether   *)
(* or not the cursor read fails, and no call writes back a block lower than    *)
(* the persisted lastSyncedBlock.                                              *)
C32_StartBlockOnlyWithoutRow ==
    [][/\ \A p \in Procs :
            Starts(p) =>
              run'[p].fromBlock = IF metadata = None THEN START_BLOCK
                                                     ELSE metadata[1]
       /\ (metadata # None /\ metadata' # metadata)
            => (metadata' # None /\ metadata'[1] >= metadata[1])]_vars

\* invocation p leaves its cursor upsert and returns in this step
ReturnsAfterCursor(p) == run[p].pc = "cursor" /\ run'[p].pc = "done"

(* C33: a sync call never advances the cursor beyond the chain head it         *)
(* observed: a call that made progress observed a head, the lastSyncedBlock it *)
(* writes is at most that head, and the remainingBlocks it reports is not      *)
(* negative.                                                                   *)
C33_CursorAtMostHead ==
    [][\A p \in Procs :
         ReturnsAfterCursor(p) =>
           /\ run[p].currentBlock # None
           /\ run[p].lastProcessedBlock <= run[p].currentBlock[1]
           /\ metadata' # metadata => metadata' = Some(run[p].lastProcessedBlock)
           /\ run'[p].result[1].remainingBlocks # None
           /\ run'[p].result[1].remainingBlocks[1] >= 0]_vars

\* a call wrote the head it observed as the cursor and reports nothing remaining
C33_Witness ==
    /\ Returned(1) /\ run[1].result[1].success
    /\ run[1].lastProcessedBlock > run[1].fromBlock
    /\ metadata = run[1].currentBlock
    /\ run[1].result[1].remainingBlocks = Some(0)

(* C34: when several leaderboard requests miss the cache and build             *)
(* concurrently, the stored build timestamp never decreases under any          *)
(* interleaving of their completions: a build that started earlier never       *)
(* overwrites the entry and timestamp of a build that started later.           *)
C34_CacheTimestampMonotonic ==
    [][cacheTimestamp' >= cacheTimestamp]_vars

(* C35: a build that fails leaves the Result Cache untouched: the entry and    *)
(* its timestamp change only when a build succeeds, and are then that build's  *)
(* result and start time; so serving a stale entry does not refresh its age,   *)
(* and a request that arrives when the entry is CACHE_TTL old or older         *)
(* attempts the upstream fetch again.                                          *)
C35_FailedBuildKeepsCache ==
    [][/\ \A q \in Reqs :
            /\ (req[q].pc \in Building /\ req'[q].pc = "done"
                  /\ req'[q].upstream = "failed")
                 => (cache' = cache /\ cacheTimestamp' = cacheTimestamp)
            /\ (req[q].pc \notin Building /\ req'[q] # req[q] /\ cache # None
                  /\ now - cacheTimestamp >= CACHE_TTL)
                 => (req'[q].pc = "api" /\ req'[q].rounds = 1)
       /\ (cache' # cache \/ cacheTimestamp' # cacheTimestamp)
            => \E q \in Reqs :
                 /\ req[q].pc = "db" /\ req'[q].pc = "done"
                 /\ req'[q].upstream = "ok"
                 /\ cache' # None
                 /\ req'[q].response = Some(Serve200(cache'[1]))
                 /\ cacheTimestamp' = req[q].now]_vars

\* a build failed when the entry was past its TTL and was answered with the
\* stale entry; a later request finds the entry as old as it was and fetches
C35_Witness ==
    /\ req[1].pc = "done" /\ req[1].upstream = "failed"
    /\ cache # None /\ req[1].response = Some(Serve200(cache[1]))
    /\ req[1].now - cacheTimestamp >= CACHE_TTL
    /\ req[2].pc = "api" /\ req[2].now > req[1].now

(* C36: for any sequence of Auto-Sync, Stop and Sync Once actions in           *)
(* SyncProgressPanel, interleaved with sync calls completing, the panel never  *)
(* has two blockchain-listener invocations in flight at the same time.         *)
C36_OneInvocationInFlight == Cardinality(InFlightCalls) <= 1

\* the response of invocation p is handled in this step and it is an error
FailureHandled(p) ==
    /\ Awaited(p) /\ panel'.waits[p].kind = "none"
    /\ ~run[p].result[1].success

\* an invocation is started in this step by a click on Sync Once
ClickedSyncOnce ==
    \E p \in Procs : panel.waits[p].kind = "none" /\ panel'.waits[p].kind = "manual"

(* C37: when a sync call made by SyncProgressPanel fails, the panel enters the *)
(* error state with autoSync = false and isRunning = false, and no further     *)
(* invocation is started until the user clicks Auto-Sync or Sync Once: while   *)
(* autoSync is off an invocation starts only by a click on Sync Once.          *)
C37_FailureStopsThePanel ==
    [][/\ \A p \in Procs :
            FailureHandled(p) => (~panel'.autoSync /\ ~panel'.isRunning)
       /\ (calls' # calls /\ ~panel.autoSync) => ClickedSyncOnce]_vars

\* the invocation that the auto-sync loop made was answered with an error and
\* the panel is in the error state, rendered, with nothing in flight
C37_Witness ==
    /\ run[1].pc = "done" /\ run[1].result # None
    /\ ~run[1].result[1].success
    /\ ~Awaiting /\ Rendered
    /\ ~panel.autoSync /\ ~panel.isRunning
    /\ calls = 1

(* C38: in the leaderboard page, after any sequence of next/previous clicks,  *)
(* page-size changes, search-query changes and reloads, the current page index *)
(* is a valid page of the filtered list: 0 <= currentPage < totalPages         *)
(* whenever the filtered list is not empty, so the displayed slice is never    *)
(* empty while matching entries exist.                                         *)
C38_CurrentPageIsValid ==
    Len(FilteredEntries(index)) > 0 =>
        /\ 0 <= index.currentPage
        /\ index.currentPage < TotalPages(index)
        /\ PaginatedEntries(index) # <<>>

====
